---- MODULE Spec2Model ----
(***************************************************************************)
(* Verification model of the PubMedGPT retrieval pipeline:                 *)
(*   app/cache.py          TTLCache (get / set under an asyncio lock)      *)
(*   app/ncbi.py           NCBIClient read-through operations and retries  *)
(*   app/routers_answer.py grounded_answer request pipeline                *)
(*   app/synthesis.py      call_openai_json citation cleaning              *)
(*                                                                         *)
(* Strings that the code inspects character by character are sequences of  *)
(* one-character strings.  The clock time.time() is the variable now; each *)
(* call of time.time() inside a handler reads a value that is not smaller  *)
(* than the previous one.                                                  *)
(***************************************************************************)
EXTENDS Integers, Sequences, FiniteSets, TLC

(***************************************************************************)
(* Bounds of the model.                                                    *)
(***************************************************************************)
MaxTime == 2        \* the clock runs 0..MaxTime
MaxTtl == 1         \* ttl_seconds is drawn from 1..MaxTtl
MaxItems == 2       \* max_items is drawn from 1..MaxItems

Keys == {"k1", "k2", "k3"}
Vals == {"a", "b"}
Miss == "None"      \* Python None, the result of a missed get
NoKey == "nokey"

Min2(a, b) == IF a <= b THEN a ELSE b

(***************************************************************************)
(* Python dict helpers.  _store is used only through len, in, get and pop, *)
(* so it is a function on the set of its keys.  _touch is iterated by min, *)
(* so it keeps insertion order: a sequence of [k, t] pairs.                *)
(***************************************************************************)
DictPop(d, key) == [k \in (DOMAIN d) \ {key} |-> d[k]]

DictPut(d, key, x) == [k \in (DOMAIN d) \cup {key} |-> IF k = key THEN x ELSE d[k]]

TouchKeys(touch) == {touch[i].k : i \in DOMAIN touch}

TouchPop(touch, key) == SelectSeq(touch, LAMBDA e : e.k # key)

TouchPut(touch, key, t) ==
    IF key \in TouchKeys(touch)
    THEN [i \in DOMAIN touch |-> IF touch[i].k = key THEN [k |-> key, t |-> t] ELSE touch[i]]
    ELSE Append(touch, [k |-> key, t |-> t])

(***************************************************************************)
(* min(self._touch.items(), key=lambda kv: kv[1])[0] if self._touch else   *)
(* None: the first entry, in insertion order, with the smallest time.      *)
(***************************************************************************)
victim_newest(touch) ==
    IF touch = <<>> THEN NoKey
    ELSE touch[CHOOSE i \in DOMAIN touch :
                 \A j \in DOMAIN touch :
                    touch[i].t > touch[j].t \/ (touch[i].t = touch[j].t /\ i <= j)].k

victim(touch) ==
    IF touch = <<>> THEN NoKey
    ELSE touch[CHOOSE i \in DOMAIN touch :
                 \A j \in DOMAIN touch :
                    touch[i].t < touch[j].t \/ (touch[i].t = touch[j].t /\ i <= j)].k

(***************************************************************************)
(* TTLCache.  A cache is [store, touch, max_items, ttl].                   *)
(***************************************************************************)
TTLCache(max_items, ttl_seconds) ==
    [store |-> <<>>, touch |-> <<>>, max_items |-> max_items, ttl |-> ttl_seconds]

\* get, with t1 the clock read at the expiry test and t2 the one at the touch
TTLCache_get_sliding(c, key, t1, t2) ==
    IF key \notin DOMAIN c.store
    THEN [cache |-> c, res |-> Miss, why |-> "absent"]
    ELSE IF c.store[key].exp < t1
    THEN [cache |-> [c EXCEPT !.store = DictPop(@, key), !.touch = TouchPop(@, key)],
          res |-> Miss, why |-> "expired"]
    ELSE [cache |-> [c EXCEPT !.store = DictPut(@, key, [exp |-> t2 + c.ttl, val |-> c.store[key].val]),
                              !.touch = TouchPut(@, key, t2)],
          res |-> c.store[key].val, why |-> "hit"]

TTLCache_get(c, key, t1, t2) ==
    IF key \notin DOMAIN c.store
    THEN [cache |-> c, res |-> Miss, why |-> "absent"]
    ELSE IF c.store[key].exp < t1
    THEN [cache |-> [c EXCEPT !.store = DictPop(@, key), !.touch = TouchPop(@, key)],
          res |-> Miss, why |-> "expired"]
    ELSE [cache |-> [c EXCEPT !.touch = TouchPut(@, key, t2)],
          res |-> c.store[key].val, why |-> "hit"]

\* the eviction branch of set: the keys it removes
Evicted_above_only(c) ==
    IF Cardinality(DOMAIN c.store) > c.max_items /\ victim(c.touch) \in DOMAIN c.store
    THEN {victim(c.touch)} ELSE {}

Evicted(c) ==
    IF Cardinality(DOMAIN c.store) >= c.max_items /\ victim(c.touch) \in DOMAIN c.store
    THEN {victim(c.touch)} ELSE {}

\* a set that first drops every entry that has expired at t1
TTLCache_set_purge(c, key, val, t1, t2) ==
    LET dead == {k \in DOMAIN c.store : c.store[k].exp < t1}
        live == [c EXCEPT !.store = [k \in (DOMAIN c.store) \ dead |-> c.store[k]],
                          !.touch = SelectSeq(c.touch, LAMBDA e : e.k \notin dead)]
        ev == Evicted(live)
        s1 == [k \in (DOMAIN live.store) \ ev |-> live.store[k]]
        h1 == SelectSeq(live.touch, LAMBDA e : e.k \notin ev)
    IN [cache |-> [c EXCEPT !.store = DictPut(s1, key, [exp |-> t1 + c.ttl, val |-> val]),
                            !.touch = TouchPut(h1, key, t2)],
        evicted |-> ev]

\* a set that leaves the value of a key that is already stored as it is
TTLCache_set_keep(c, key, val, t1, t2) ==
    LET ev == Evicted(c)
        s1 == [k \in (DOMAIN c.store) \ ev |-> c.store[k]]
        h1 == SelectSeq(c.touch, LAMBDA e : e.k \notin ev)
        kept == IF key \in DOMAIN c.store THEN c.store[key].val ELSE val
    IN [cache |-> [c EXCEPT !.store = DictPut(s1, key, [exp |-> t1 + c.ttl, val |-> kept]),
                            !.touch = TouchPut(h1, key, t2)],
        evicted |-> ev]

\* set, with t1 the clock read for the expiry and t2 the one for the touch
TTLCache_set(c, key, val, t1, t2) ==
    LET ev == Evicted(c)
        s1 == [k \in (DOMAIN c.store) \ ev |-> c.store[k]]
        h1 == SelectSeq(c.touch, LAMBDA e : e.k \notin ev)
    IN [cache |-> [c EXCEPT !.store = DictPut(s1, key, [exp |-> t1 + c.ttl, val |-> val]),
                            !.touch = TouchPut(h1, key, t2)],
        evicted |-> ev]

(***************************************************************************)
(* Sequential use of one TTLCache: every get and set is one atomic step.   *)
(*   cache    the TTLCache object                                          *)
(*   now      the clock                                                    *)
(*   lastOp   the call made by the last step and what it returned          *)
(*   setAt    per key, the clock at its most recent set (-1: never)        *)
(*   usedAt   per key, the clock at its most recent set or successful get  *)
(***************************************************************************)
VARIABLES cache, now, lastOp, setAt, usedAt

cvars == <<cache, now, lastOp, setAt, usedAt>>

(***************************************************************************)
(* Concurrent callers of one TTLCache, one step per source line.           *)
(*   lock   the holder of TTLCache._lock (NoProc: free)                    *)
(*   pc     per caller, the line it is about to run                        *)
(*   call   per caller, the call it is making                              *)
(*   loc    per caller, its local variables                                *)
(*   snap   per caller, the cache as it was when the caller got the lock   *)
(***************************************************************************)
VARIABLES lock, pc, call, loc, snap

lvars == <<lock, pc, call, loc, snap>>

(***************************************************************************)
(* NCBIClient operations over the two module-level caches.                 *)
(*   tiers      short_cache and default_cache                              *)
(*   fpc        per invocation, where it is                                *)
(*   fcall      per invocation, the operation and its argument             *)
(*   fattempts  per invocation, the failed attempts of its outbound call   *)
(*   fdata      per invocation, the body the outbound call returned        *)
(*   fres       per invocation, how it ended: [out, val] and by which way  *)
(*   watch      one client set picked for observation: its key, clock and  *)
(*              value, and whether a later set has evicted the key; it is  *)
(*              dropped once its TTL has passed                            *)
(*   inplay     the operations the callers of this run use                 *)
(***************************************************************************)
VARIABLES tiers, fpc, fcall, fattempts, fdata, fres, watch, inplay

fvars == <<tiers, fpc, fcall, fattempts, fdata, fres, watch, inplay>>

(***************************************************************************)
(* One grounded_answer request, one step per stage of the handler.         *)
(*   apc            the line the request is about to run                   *)
(*   req            the fields of AnswerRequest the handler branches on    *)
(*   pmids, meta, xml, pmc_map, pmc_xml                                    *)
(*                  the handler's locals holding what the client returned  *)
(*   corpus         the chunks collected so far, each with its metadata    *)
(*   top_chunks     the evidence chunks handed to the synthesis call       *)
(*   failed         the client operation whose retries were exhausted      *)
(*   response       how the request ended                                  *)
(***************************************************************************)
VARIABLES apc, req, pmids, meta, xml, pmc_map, pmc_xml, corpus, top_chunks, failed, response

avars == <<apc, req, pmids, meta, xml, pmc_map, pmc_xml, corpus, top_chunks, failed, response>>

(***************************************************************************)
(* One call of a pure function of the program.                             *)
(*   ufn    the function called                                            *)
(*   uarg   its arguments                                                  *)
(*   uout   what it returned (or that it raised)                           *)
(*   udone  whether the call has been made                                 *)
(***************************************************************************)
VARIABLES ufn, uarg, uout, udone

uvars == <<ufn, uarg, uout, udone>>

vars == <<cvars, lvars, fvars, avars, uvars>>

\* two successive reads of the clock inside one handler
ClockReads == {now} \X (now..Min2(now + 1, MaxTime))

NoOp == [op |-> "init", key |-> NoKey, val |-> Miss, res |-> Miss, why |-> "", evicted |-> {}]

CacheInit ==
    /\ \E m \in 1..MaxItems, t \in 1..MaxTtl : cache = TTLCache(m, t)
    /\ now = 0
    /\ lastOp = NoOp
    /\ setAt = [k \in Keys |-> -1]
    /\ usedAt = [k \in Keys |-> -1]

Tick ==
    /\ now < MaxTime
    /\ now' = now + 1
    /\ lastOp' = [NoOp EXCEPT !.op = "tick"]
    /\ UNCHANGED <<cache, setAt, usedAt>>
    /\ UNCHANGED <<lvars, fvars, avars, uvars>>

Get(key) ==
    \E r \in ClockReads :
       LET g == TTLCache_get(cache, key, r[1], r[2]) IN
       /\ cache' = g.cache
       /\ now' = r[2]
       /\ lastOp' = [op |-> "get", key |-> key, val |-> Miss, res |-> g.res,
                     why |-> g.why, evicted |-> {}]
       /\ usedAt' = IF g.why = "hit" THEN [usedAt EXCEPT ![key] = r[2]] ELSE usedAt
       /\ UNCHANGED setAt
       /\ UNCHANGED <<lvars, fvars, avars, uvars>>

Set(key, val) ==
    \E r \in ClockReads :
       LET s == TTLCache_set(cache, key, val, r[1], r[2]) IN
       /\ cache' = s.cache
       /\ now' = r[2]
       /\ lastOp' = [op |-> "set", key |-> key, val |-> val, res |-> Miss,
                     why |-> "", evicted |-> s.evicted]
       /\ setAt' = [setAt EXCEPT ![key] = r[1]]
       /\ usedAt' = [usedAt EXCEPT ![key] = r[2]]
       /\ UNCHANGED <<lvars, fvars, avars, uvars>>

CacheNext ==
    \/ Tick
    \/ \E k \in Keys : Get(k)
    \/ \E k \in Keys, v \in Vals : Set(k, v)

(***************************************************************************)
(* C1: a get that directly follows set(key, val) on the same key returns   *)
(* val; and a get issued when the clock is past the time of the key's most *)
(* recent set plus the TTL returns a miss and leaves the key out of the    *)
(* store, whatever gets succeeded in between.                              *)
(***************************************************************************)
C1_GetAfterSetAndExpiry ==
    [][ lastOp'.op = "get" =>
          /\ (lastOp.op = "set" /\ lastOp.key = lastOp'.key) => lastOp'.res = lastOp.val
          /\ (setAt[lastOp'.key] >= 0 /\ now > setAt[lastOp'.key] + cache.ttl) =>
                (lastOp'.res = Miss /\ lastOp'.key \notin DOMAIN cache'.store) ]_cvars

\* a get found its entry expired although a get on it had succeeded after its set
C1_Witness ==
    /\ lastOp.op = "get"
    /\ lastOp.why = "expired"
    /\ setAt[lastOp.key] >= 0
    /\ usedAt[lastOp.key] > setAt[lastOp.key]

(***************************************************************************)
(* C2: the store never holds more than max_items entries.                  *)
(***************************************************************************)
C2_NeverAboveMaxItems == Cardinality(DOMAIN cache.store) <= cache.max_items

\* a set at capacity evicted an entry and the store is full again
C2_Witness ==
    /\ lastOp.op = "set"
    /\ lastOp.evicted # {}
    /\ Cardinality(DOMAIN cache.store) = cache.max_items

(***************************************************************************)
(* C3: a set on a store holding at least max_items entries removes exactly *)
(* one entry, one whose most recent set or successful get is the oldest,   *)
(* and then inserts; a set below capacity removes nothing.  Every other    *)
(* entry is left as it was.                                                *)
(***************************************************************************)
C3_SetEvictsOldestTouched ==
    [][ lastOp'.op = "set" =>
          LET before == DOMAIN cache.store
              key == lastOp'.key
          IN /\ IF Cardinality(before) >= cache.max_items
                THEN \E v \in before :
                        /\ lastOp'.evicted = {v}
                        /\ \A k \in before : usedAt[v] <= usedAt[k]
                        /\ DOMAIN cache'.store = (before \ {v}) \cup {key}
                ELSE /\ lastOp'.evicted = {}
                     /\ DOMAIN cache'.store = before \cup {key}
             /\ \A k \in DOMAIN cache'.store \ {key} : cache'.store[k] = cache.store[k] ]_cvars

\* the evicted entry was set after a surviving one, which a later get had touched
C3_Witness ==
    /\ lastOp.op = "set"
    /\ \E v \in lastOp.evicted :
          /\ v # lastOp.key
          /\ \E k \in DOMAIN cache.store : k # lastOp.key /\ setAt[k] < setAt[v]

\* "exp < time.time()": the entry of key k has expired at clock t
Expired(c, k, t) == k \in DOMAIN c.store /\ c.store[k].exp < t

Procs == {"p1", "p2"}
NoProc == "noproc"
LKeys == {"k1", "k2"}

\* values are opaque to the cache: each caller stores a value of its own
ValOf == [p \in Procs |-> IF p = "p1" THEN "a" ELSE "b"]

NoCall == [op |-> "none", key |-> NoKey, val |-> Miss]
NoLoc == [found |-> FALSE, exp |-> 0, val |-> Miss, victim |-> NoKey,
          t1 |-> 0, t2 |-> 0, res |-> Miss]
NoSnap == TTLCache(0, 0)

\* asyncio.Lock: acquire succeeds only while nobody holds the lock
LockAvailable_always(l) == TRUE

LockAvailable(l) == l = NoProc

InCritical == {"L21", "L25", "L26", "L27", "L29", "L34", "L36", "L37", "L38", "L39",
               "L40", "L41", "rel"}

LockInit ==
    /\ lock = NoProc
    /\ pc = [p \in Procs |-> "idle"]
    /\ call = [p \in Procs |-> NoCall]
    /\ loc = [p \in Procs |-> NoLoc]
    /\ snap = [p \in Procs |-> NoSnap]

Goto(p, line) == pc' = [pc EXCEPT ![p] = line]

CallGet(p, key) ==
    /\ pc[p] = "idle"
    /\ call' = [call EXCEPT ![p] = [op |-> "get", key |-> key, val |-> Miss]]
    /\ loc' = [loc EXCEPT ![p] = NoLoc]
    /\ Goto(p, "L20")
    /\ UNCHANGED <<cvars, lock, snap>>
    /\ UNCHANGED <<fvars, avars, uvars>>

CallSet(p, key, val) ==
    /\ pc[p] = "idle"
    /\ call' = [call EXCEPT ![p] = [op |-> "set", key |-> key, val |-> val]]
    /\ loc' = [loc EXCEPT ![p] = NoLoc]
    /\ Goto(p, "L33")
    /\ UNCHANGED <<cvars, lock, snap>>
    /\ UNCHANGED <<fvars, avars, uvars>>

\* async with self._lock (cache.py:20 and :33)
Acquire(p) ==
    /\ pc[p] \in {"L20", "L33"}
    /\ LockAvailable(lock)
    /\ lock' = p
    /\ snap' = [snap EXCEPT ![p] = cache]
    /\ Goto(p, IF pc[p] = "L20" THEN "L21" ELSE "L34")
    /\ UNCHANGED <<cvars, call, loc>>
    /\ UNCHANGED <<fvars, avars, uvars>>

\* item = self._store.get(key); if not item: return None
L21(p) ==
    /\ pc[p] = "L21"
    /\ IF call[p].key \in DOMAIN cache.store
       THEN /\ loc' = [loc EXCEPT ![p].found = TRUE,
                                  ![p].exp = cache.store[call[p].key].exp,
                                  ![p].val = cache.store[call[p].key].val]
            /\ Goto(p, "L25")
       ELSE /\ loc' = [loc EXCEPT ![p].res = Miss]
            /\ Goto(p, "rel")
    /\ UNCHANGED <<cvars, lock, call, snap>>
    /\ UNCHANGED <<fvars, avars, uvars>>

\* exp, val = item; if exp < time.time():
L25(p) ==
    /\ pc[p] = "L25"
    /\ loc' = [loc EXCEPT ![p].t1 = now]
    /\ Goto(p, IF loc[p].exp < now THEN "L26" ELSE "L29")
    /\ UNCHANGED <<cvars, lock, call, snap>>
    /\ UNCHANGED <<fvars, avars, uvars>>

\* self._store.pop(key, None)
L26(p) ==
    /\ pc[p] = "L26"
    /\ cache' = [cache EXCEPT !.store = DictPop(@, call[p].key)]
    /\ Goto(p, "L27")
    /\ UNCHANGED <<now, lastOp, setAt, usedAt, lock, call, loc, snap>>
    /\ UNCHANGED <<fvars, avars, uvars>>

\* self._touch.pop(key, None); return None
L27(p) ==
    /\ pc[p] = "L27"
    /\ cache' = [cache EXCEPT !.touch = TouchPop(@, call[p].key)]
    /\ loc' = [loc EXCEPT ![p].res = Miss]
    /\ Goto(p, "rel")
    /\ UNCHANGED <<now, lastOp, setAt, usedAt, lock, call, snap>>
    /\ UNCHANGED <<fvars, avars, uvars>>

\* self._touch[key] = time.time(); return val
L29(p) ==
    /\ pc[p] = "L29"
    /\ cache' = [cache EXCEPT !.touch = TouchPut(@, call[p].key, now)]
    /\ loc' = [loc EXCEPT ![p].t2 = now, ![p].res = loc[p].val]
    /\ Goto(p, "rel")
    /\ UNCHANGED <<now, lastOp, setAt, usedAt, lock, call, snap>>
    /\ UNCHANGED <<fvars, avars, uvars>>

\* if len(self._store) >= self.max_items:
L34(p) ==
    /\ pc[p] = "L34"
    /\ Goto(p, IF Cardinality(DOMAIN cache.store) >= cache.max_items THEN "L36" ELSE "L40")
    /\ UNCHANGED <<cvars, lock, call, loc, snap>>
    /\ UNCHANGED <<fvars, avars, uvars>>

\* victim = min(self._touch.items(), ...)[0] if self._touch else None
L36(p) ==
    /\ pc[p] = "L36"
    /\ loc' = [loc EXCEPT ![p].victim = victim(cache.touch)]
    /\ Goto(p, "L37")
    /\ UNCHANGED <<cvars, lock, call, snap>>
    /\ UNCHANGED <<fvars, avars, uvars>>

\* if victim in self._store:
L37(p) ==
    /\ pc[p] = "L37"
    /\ Goto(p, IF loc[p].victim \in DOMAIN cache.store THEN "L38" ELSE "L40")
    /\ UNCHANGED <<cvars, lock, call, loc, snap>>
    /\ UNCHANGED <<fvars, avars, uvars>>

\* self._store.pop(victim, None)
L38(p) ==
    /\ pc[p] = "L38"
    /\ cache' = [cache EXCEPT !.store = DictPop(@, loc[p].victim)]
    /\ Goto(p, "L39")
    /\ UNCHANGED <<now, lastOp, setAt, usedAt, lock, call, loc, snap>>
    /\ UNCHANGED <<fvars, avars, uvars>>

\* self._touch.pop(victim, None)
L39(p) ==
    /\ pc[p] = "L39"
    /\ cache' = [cache EXCEPT !.touch = TouchPop(@, loc[p].victim)]
    /\ Goto(p, "L40")
    /\ UNCHANGED <<now, lastOp, setAt, usedAt, lock, call, loc, snap>>
    /\ UNCHANGED <<fvars, avars, uvars>>

\* self._store[key] = (time.time() + self.ttl, val)
L40(p) ==
    /\ pc[p] = "L40"
    /\ cache' = [cache EXCEPT !.store =
                    DictPut(@, call[p].key, [exp |-> now + cache.ttl, val |-> call[p].val])]
    /\ loc' = [loc EXCEPT ![p].t1 = now]
    /\ Goto(p, "L41")
    /\ UNCHANGED <<now, lastOp, setAt, usedAt, lock, call, snap>>
    /\ UNCHANGED <<fvars, avars, uvars>>

\* self._touch[key] = time.time()
L41(p) ==
    /\ pc[p] = "L41"
    /\ cache' = [cache EXCEPT !.touch = TouchPut(@, call[p].key, now)]
    /\ loc' = [loc EXCEPT ![p].t2 = now, ![p].res = Miss]
    /\ Goto(p, "rel")
    /\ UNCHANGED <<now, lastOp, setAt, usedAt, lock, call, snap>>
    /\ UNCHANGED <<fvars, avars, uvars>>

\* leaving the "async with" block releases the lock
Release(p) ==
    /\ pc[p] = "rel"
    /\ lock' = NoProc
    /\ snap' = [snap EXCEPT ![p] = NoSnap]
    /\ call' = [call EXCEPT ![p] = NoCall]
    /\ loc' = [loc EXCEPT ![p] = NoLoc]
    /\ Goto(p, "idle")
    /\ UNCHANGED cvars
    /\ UNCHANGED <<fvars, avars, uvars>>

LTick ==
    /\ now < MaxTime
    /\ now' = now + 1
    /\ UNCHANGED <<cache, lastOp, setAt, usedAt, lvars>>
    /\ UNCHANGED <<fvars, avars, uvars>>

LockNext ==
    \/ LTick
    \/ \E p \in Procs, k \in LKeys : CallGet(p, k)
    \/ \E p \in Procs, k \in LKeys : CallSet(p, k, ValOf[p])
    \/ \E p \in Procs : Acquire(p)
    \/ \E p \in Procs : L21(p)
    \/ \E p \in Procs : L25(p)
    \/ \E p \in Procs : L26(p)
    \/ \E p \in Procs : L27(p)
    \/ \E p \in Procs : L29(p)
    \/ \E p \in Procs : L34(p)
    \/ \E p \in Procs : L36(p)
    \/ \E p \in Procs : L37(p)
    \/ \E p \in Procs : L38(p)
    \/ \E p \in Procs : L39(p)
    \/ \E p \in Procs : L40(p)
    \/ \E p \in Procs : L41(p)
    \/ \E p \in Procs : Release(p)

\* what the caller's whole call does when run in one step on the cache it locked
AtomicEffect(p) ==
    IF call[p].op = "get"
    THEN LET g == TTLCache_get(snap[p], call[p].key, loc[p].t1, loc[p].t2)
         IN [cache |-> g.cache, res |-> g.res]
    ELSE LET s == TTLCache_set(snap[p], call[p].key, call[p].val, loc[p].t1, loc[p].t2)
         IN [cache |-> s.cache, res |-> Miss]

(***************************************************************************)
(* C4: at most one caller is inside a handler body at a time, and when a   *)
(* caller reaches the end of its handler the cache and its result are what *)
(* the whole get or set, run as one step, makes of the cache it found when *)
(* it got the lock: the calls take effect one after another, in the order  *)
(* in which they got the lock.                                             *)
(***************************************************************************)
C4_CallsAreAtomic ==
    /\ Cardinality({p \in Procs : pc[p] \in InCritical}) <= 1
    /\ \A p \in Procs :
          pc[p] = "rel" => /\ cache = AtomicEffect(p).cache
                           /\ loc[p].res = AtomicEffect(p).res

\* a set that evicted an entry completes while the other caller waits for the lock
C4_Witness ==
    \E p \in Procs, q \in Procs :
       /\ p # q
       /\ pc[p] = "rel"
       /\ call[p].op = "set"
       /\ loc[p].victim # NoKey
       /\ pc[q] \in {"L20", "L33"}
       /\ call[q].key = call[p].key

(***************************************************************************)
(* NCBIClient.  An operation is [kind, arg]; arg is the ID list (for       *)
(* esearch: the search parameters).  The outbound HTTP attempt either      *)
(* fails (non-success status, transport failure, timeout) or succeeds with *)
(* a body.                                                                 *)
(***************************************************************************)
ShortMaxItems == 1      \* short_cache.max_items, scaled down
ShortTtl == 1           \* short_cache.ttl, scaled down
DefaultMaxItems == 1    \* default_cache.max_items, scaled down
DefaultTtl == 2         \* default_cache.ttl, scaled down
MaxAttempts == 5        \* stop_after_attempt(5)
FetchMaxTime == 3       \* the clock of a run of client calls stops here

FAll == {"i1", "i2"}
FSeq == {"i1"}

Kinds == {"esearch", "esummary", "efetch.pubmed", "elink.pmc", "efetch.pmc"}
ListKinds == Kinds \ {"esearch"}

Args == {<<>>, <<"7">>, <<"term">>}

ArgsOf(kind) == IF kind = "esearch" THEN {<<"term">>} ELSE {<<>>, <<"7">>}

\* the bodies a successful attempt can carry, per operation
BodiesOf(kind) ==
    CASE kind = "esearch" -> {"ids", "noids", "notobject"}
      [] kind = "esummary" -> {"result", "null", "notobject"}
      [] kind = "efetch.pubmed" -> {"xml"}
      [] kind = "elink.pmc" -> {"linkxml", "garbage"}
      [] kind = "efetch.pmc" -> {"nxml"}

\* cache_key = (kind, parameters...)
cache_key(kind, arg) == <<kind, arg>>

\* esearch uses short_cache, the other operations default_cache
tier_all_default(kind) == "default"

tier(kind) == IF kind = "esearch" THEN "short" ELSE "default"

\* "if not pmids: return {}" resp. "return ''": the operations that have it
short_circuit_never(kind, arg) == FALSE

short_circuit(kind, arg) == kind \in ListKinds /\ arg = <<>>

empty_result(kind) == IF kind \in {"efetch.pubmed", "efetch.pmc"} THEN "''" ELSE "{}"

\* tenacity stop_after_attempt(5): stop once the attempt number reaches the maximum
stop_after_attempt_late(attempt_number) == attempt_number > MaxAttempts

stop_after_attempt(attempt_number) == attempt_number >= MaxAttempts

\* no operation wraps its outbound call in try/except: the RetryError propagates
propagates_never(kind) == FALSE

propagates(kind) == TRUE

\* what the operation makes of the body before it stores and returns it;
\* "AttributeError": .get on a JSON value that is not an object
decode(kind, body) ==
    CASE kind = "esearch" ->
            IF body = "notobject" THEN "AttributeError"
            ELSE IF body = "ids" THEN "['7']" ELSE "[]"
      [] kind = "esummary" ->
            IF body = "notobject" THEN "AttributeError"
            ELSE IF body = "null" THEN Miss ELSE "meta"
      [] kind = "elink.pmc" -> IF body = "linkxml" THEN "{'7': '9'}" ELSE "{}"
      [] OTHER -> body

NoFCall == [kind |-> "none", arg |-> <<>>]
NoRes == [out |-> "none", val |-> Miss, via |-> "none"]
NoWatch == [on |-> FALSE, key |-> <<>>, at |-> 0, val |-> Miss, gone |-> FALSE]

\* the observed set is forgotten once the clock t is past its TTL
Lapse(w, t) ==
    IF w.on /\ t > w.at + tiers[tier(w.key[1])].ttl THEN NoWatch ELSE w

\* the operations the callers of one run use: every pair of operations
Workloads == {w \in SUBSET Kinds : Cardinality(w) = 2}

FetchIdle ==
    /\ tiers = [short |-> TTLCache(ShortMaxItems, ShortTtl),
                default |-> TTLCache(DefaultMaxItems, DefaultTtl)]
    /\ fpc = [i \in FAll |-> "idle"]
    /\ fcall = [i \in FAll |-> NoFCall]
    /\ fattempts = [i \in FAll |-> 0]
    /\ fdata = [i \in FAll |-> ""]
    /\ fres = [i \in FAll |-> NoRes]
    /\ watch = NoWatch

FetchInit == FetchIdle /\ inplay \in Workloads

KeyOf(i) == cache_key(fcall[i].kind, fcall[i].arg)
TierOf(i) == tier(fcall[i].kind)

\* the call (the previous one, if any, has ended and its result is dropped):
\* the empty-list guard, or on to the cache lookup
Begin(i, kind, arg) ==
    /\ fpc[i] \in {"idle", "done"}
    /\ kind \in inplay
    /\ arg \in ArgsOf(kind)
    /\ fcall' = [fcall EXCEPT ![i] = [kind |-> kind, arg |-> arg]]
    /\ IF short_circuit(kind, arg)
       THEN /\ fres' = [fres EXCEPT ![i] = [out |-> "returned", val |-> empty_result(kind), via |-> "guard"]]
            /\ fpc' = [fpc EXCEPT ![i] = "done"]
       ELSE /\ fres' = [fres EXCEPT ![i] = NoRes]
            /\ fpc' = [fpc EXCEPT ![i] = "get"]
    /\ UNCHANGED <<tiers, fattempts, fdata, watch, inplay>>
    /\ UNCHANGED <<cvars, lvars, avars, uvars>>

\* cached = await <tier>.get(cache_key); if cached is not None: return cached
Lookup(i) ==
    /\ fpc[i] = "get"
    /\ LET g == TTLCache_get(tiers[TierOf(i)], KeyOf(i), now, now)
       IN /\ tiers' = [tiers EXCEPT ![TierOf(i)] = g.cache]
          /\ IF g.res # Miss
             THEN /\ fres' = [fres EXCEPT ![i] = [out |-> "returned", val |-> g.res, via |-> "cache"]]
                  /\ fpc' = [fpc EXCEPT ![i] = "done"]
             ELSE /\ fpc' = [fpc EXCEPT ![i] = "attempt"]
                  /\ UNCHANGED fres
    /\ UNCHANGED <<fcall, fattempts, fdata, watch, inplay>>
    /\ UNCHANGED <<cvars, lvars, avars, uvars>>

\* one attempt of _get_json / _get_text that succeeds: the retry loop ends and
\* the body goes to the operation
AttemptOk(i) ==
    /\ fpc[i] = "attempt"
    /\ \E body \in BodiesOf(fcall[i].kind) : fdata' = [fdata EXCEPT ![i] = body]
    /\ fattempts' = [fattempts EXCEPT ![i] = 0]
    /\ fpc' = [fpc EXCEPT ![i] = "set"]
    /\ UNCHANGED <<tiers, fcall, fres, watch, inplay>>
    /\ UNCHANGED <<cvars, lvars, avars, uvars>>

\* one attempt that raises: retried after the backoff wait unless the stop
\* condition holds, and then the RetryError leaves the operation
AttemptFail(i) ==
    /\ fpc[i] = "attempt"
    /\ IF ~stop_after_attempt(fattempts[i] + 1)
       THEN /\ fattempts' = [fattempts EXCEPT ![i] = @ + 1]
            /\ UNCHANGED <<fpc, fres, fdata>>
       ELSE /\ fattempts' = [fattempts EXCEPT ![i] = 0]
            /\ IF propagates(fcall[i].kind)
               THEN /\ fpc' = [fpc EXCEPT ![i] = "done"]
                    /\ fres' = [fres EXCEPT ![i] = [out |-> "raised", val |-> "RetryError", via |-> "fetch"]]
                    /\ UNCHANGED fdata
               ELSE /\ fpc' = [fpc EXCEPT ![i] = "set"]
                    /\ fdata' = [fdata EXCEPT ![i] = "swallowed"]
                    /\ UNCHANGED fres
    /\ UNCHANGED <<tiers, fcall, watch, inplay>>
    /\ UNCHANGED <<cvars, lvars, avars, uvars>>

\* decode the body, await <tier>.set(cache_key, result), return result
Store(i) ==
    /\ fpc[i] = "set"
    /\ LET res == IF fdata[i] = "swallowed" THEN empty_result(fcall[i].kind)
                  ELSE decode(fcall[i].kind, fdata[i])
           k == KeyOf(i)
           s == TTLCache_set(tiers[TierOf(i)], k, res, now, now)
       IN IF res = "AttributeError"
          THEN /\ fres' = [fres EXCEPT ![i] = [out |-> "raised", val |-> res, via |-> "fetch"]]
               /\ UNCHANGED <<tiers, watch>>
          ELSE /\ tiers' = [tiers EXCEPT ![TierOf(i)] = s.cache]
               /\ fres' = [fres EXCEPT ![i] = [out |-> "returned", val |-> res, via |-> "fetch"]]
               /\ \/ watch' = [on |-> TRUE, key |-> k, at |-> now, val |-> res, gone |-> FALSE]
                  \/ watch' = IF watch.on /\ watch.key # k
                              THEN [watch EXCEPT !.gone = @ \/ watch.key \in s.evicted]
                              ELSE NoWatch
    /\ fdata' = [fdata EXCEPT ![i] = ""]
    /\ fpc' = [fpc EXCEPT ![i] = "done"]
    /\ UNCHANGED <<fcall, fattempts, inplay>>
    /\ UNCHANGED <<cvars, lvars, avars, uvars>>

\* the clock the cache calls read moves on
FTick ==
    /\ now < FetchMaxTime
    /\ now' = now + 1
    /\ watch' = Lapse(watch, now + 1)
    /\ UNCHANGED <<tiers, fpc, fcall, fattempts, fdata, fres, inplay>>
    /\ UNCHANGED <<cache, lastOp, setAt, usedAt, lvars, avars, uvars>>

FetchNext ==
    \/ FTick
    \/ \E i \in FSeq, kind \in Kinds, arg \in Args : Begin(i, kind, arg)
    \/ \E i \in FSeq : Lookup(i)
    \/ \E i \in FSeq : AttemptOk(i)
    \/ \E i \in FSeq : AttemptFail(i)
    \/ \E i \in FSeq : Store(i)

\* the call of invocation i finds a usable entry: present, not expired, not None
Usable(c, key, t) ==
    /\ key \in DOMAIN c.store
    /\ c.store[key].exp >= t
    /\ c.store[key].val # Miss

\* the tier the documentation assigns to an operation
TierFor(kind) == IF kind = "esearch" THEN "short" ELSE "default"

OtherTier(tr) == IF tr = "short" THEN "default" ELSE "short"

\* the step by which invocation i leaves its cache lookup
LookupStep(i) == fpc[i] = "get" /\ fpc'[i] # "get"

\* the step by which invocation i returns what it has fetched
StoreStep(i) == fpc[i] = "set" /\ fpc'[i] = "done" /\ fres'[i].out = "returned"

\* invocation i repeats the observed call within the TTL of its tier
Repeats(i) == watch.on /\ watch.key = KeyOf(i)

C5_HitOrFetch(i) ==
    LookupStep(i) =>
        LET c == tiers[TierFor(fcall[i].kind)]
        IN IF Usable(c, KeyOf(i), now)
           THEN /\ fpc'[i] = "done"
                /\ fres'[i] = [out |-> "returned", val |-> c.store[KeyOf(i)].val, via |-> "cache"]
           ELSE fpc'[i] = "attempt"

C5_StoredBeforeReturn(i) ==
    StoreStep(i) =>
        LET tr == TierFor(fcall[i].kind)
            c == tiers'[tr]
        IN /\ KeyOf(i) \in DOMAIN c.store
           /\ c.store[KeyOf(i)] = [exp |-> now + c.ttl, val |-> fres'[i].val]
           /\ tiers'[OtherTier(tr)] = tiers[OtherTier(tr)]

(***************************************************************************)
(* C5 (as amended): an operation whose tier holds an unexpired entry with  *)
(* a value other than None for the call's key returns that value without   *)
(* an outbound call, and otherwise goes on to the outbound call; when it   *)
(* returns a fetched result it has stored it under the key in its tier     *)
(* (short_cache for esearch, default_cache for the others) and left the    *)
(* other tier alone; an identical call repeated within the TTL returns the *)
(* stored result without an outbound call provided that result is not None *)
(* and the entry has not been evicted by a set on the full tier meanwhile. *)
(***************************************************************************)
C5_ReadThrough ==
    [][\A i \in FSeq :
          /\ C5_HitOrFetch(i)
          /\ C5_StoredBeforeReturn(i)
          /\ (LookupStep(i) /\ Repeats(i) /\ ~watch.gone /\ watch.val # Miss)
                => /\ fpc'[i] = "done"
                   /\ fres'[i] = [out |-> "returned", val |-> watch.val, via |-> "cache"]]_vars

\* an identical call, repeated within the TTL after time has passed, has
\* returned the stored result from the cache
C5_Witness ==
    \E i \in FSeq :
        /\ fpc[i] = "done" /\ fres[i].via = "cache"
        /\ Repeats(i) /\ ~watch.gone /\ now > watch.at
        /\ fres[i].val = watch.val

\* C5 as stated: every unexpired entry is returned, and every identical call
\* repeated within the TTL is served without an outbound call
C5_AsStated ==
    [][\A i \in FSeq :
          /\ LookupStep(i) =>
                LET c == tiers[TierFor(fcall[i].kind)]
                IN IF KeyOf(i) \in DOMAIN c.store /\ c.store[KeyOf(i)].exp >= now
                   THEN /\ fpc'[i] = "done"
                        /\ fres'[i].val = c.store[KeyOf(i)].val
                   ELSE fpc'[i] = "attempt"
          /\ C5_StoredBeforeReturn(i)
          /\ (LookupStep(i) /\ Repeats(i)) => fpc'[i] = "done"]_vars

(***************************************************************************)
(* C6: a logical outbound call never has more than MaxAttempts - 1 failed  *)
(* attempts behind it while an attempt is due, so it makes at most         *)
(* MaxAttempts attempts; a failed attempt before the ceiling is followed   *)
(* by another attempt, the failed attempt at the ceiling ends the call,    *)
(* and a successful attempt ends the call with the body it received.       *)
(***************************************************************************)
C6_AtMostMaxAttempts ==
    [][\A i \in FSeq :
          /\ fpc[i] = "attempt" => fattempts[i] + 1 <= 5
          /\ (AttemptFail(i) /\ fattempts[i] + 1 < 5)
                => fpc'[i] = "attempt" /\ fattempts'[i] = fattempts[i] + 1
          /\ (AttemptFail(i) /\ fattempts[i] + 1 >= 5) => fpc'[i] # "attempt"
          /\ AttemptOk(i)
                => fpc'[i] = "set" /\ fdata'[i] \in BodiesOf(fcall[i].kind)]_vars

\* the fifth attempt is due after four failed ones
C6_Witness == \E i \in FSeq : fpc[i] = "attempt" /\ fattempts[i] = 4

\* the failed attempt that exhausts the retries of invocation i
Exhausts(i) == AttemptFail(i) /\ fpc'[i] # "attempt"

(***************************************************************************)
(* C7: the failed attempt that exhausts the retries ends the operation     *)
(* with a raised RetryError and not with a returned value; no failed       *)
(* attempt changes a cache tier; and after the raise a lookup of the       *)
(* call's key still misses, so the next identical call fetches again.      *)
(***************************************************************************)
C7_ExhaustedRetriesRaise ==
    [][\A i \in FSeq :
          /\ AttemptFail(i) => tiers' = tiers
          /\ Exhausts(i)
                => /\ fpc'[i] = "done"
                   /\ fres'[i].out = "raised"
                   /\ fres'[i].val = "RetryError"
                   /\ ~Usable(tiers'[TierFor(fcall[i].kind)], KeyOf(i), now)]_vars

\* an operation has ended with the RetryError of its outbound call
C7_Witness ==
    \E i \in FSeq :
        /\ fpc[i] = "done" /\ fres[i].out = "raised" /\ fres[i].val = "RetryError"
        /\ ~Usable(tiers[TierFor(fcall[i].kind)], KeyOf(i), now)

\* invocation i is called with an empty ID list on a list operation
EmptyListCall(i) == \E kind \in ListKinds : Begin(i, kind, <<>>)

(***************************************************************************)
(* C8: esummary, efetch_pubmed_xml, elink_pmc and efetch_pmc_xml called    *)
(* with an empty ID list return {} resp. "" in the very step of the call:  *)
(* no cache get, no outbound attempt, no cache set, both tiers unchanged.  *)
(***************************************************************************)
C8_EmptyListShortCircuit ==
    [][\A i \in FSeq :
          EmptyListCall(i)
             => /\ fpc'[i] = "done"
                /\ fres'[i].out = "returned"
                /\ fres'[i].val = (IF fcall'[i].kind \in {"esummary", "elink.pmc"}
                                   THEN "{}" ELSE "''")
                /\ fattempts'[i] = 0
                /\ tiers' = tiers]_vars

\* a list operation called with an empty ID list has returned while a tier
\* holds an entry
C8_Witness ==
    \E i \in FSeq :
        /\ fpc[i] = "done" /\ fres[i].via = "guard"
        /\ fcall[i].kind \in ListKinds /\ fcall[i].arg = <<>>
        /\ tiers["default"].store # <<>>

(***************************************************************************)
(* grounded_answer (routers_answer.py) and call_openai_json (synthesis.py).*)
(* The client operations are taken by their outcome: a returned value or   *)
(* the RetryError of exhausted retries.  Identifiers, snippets and quotes  *)
(* are sequences of characters.                                            *)
(***************************************************************************)
MaxTopK == 2        \* req.top_k is drawn from 1..MaxTopK
MaxCites == 1       \* the model's reply carries at most MaxCites citations

P1 == <<"1">>
P2 == <<"2">>
C5 == <<"5">>
NoId == <<>>        \* None resp. "" in an identifier field
T1 == <<"a", "b">>
T2 == <<"b", "c">>
T3 == <<"c", "d">>

\* str.strip() and str.upper() on the characters in use
\* the newline character
NL == "\n"

\* the whitespace str.strip() removes, of the characters in use
Whitespace == {" ", NL}

RECURSIVE LStrip(_)
LStrip(s) == IF s # <<>> /\ Head(s) \in Whitespace THEN LStrip(Tail(s)) ELSE s

RECURSIVE RStrip(_)
RStrip(s) ==
    IF s # <<>> /\ s[Len(s)] \in Whitespace
    THEN RStrip(SubSeq(s, 1, Len(s) - 1))
    ELSE s

Strip(s) == RStrip(LStrip(s))

Upper(ch) == CASE ch = "p" -> "P" [] ch = "m" -> "M" [] ch = "c" -> "C" [] OTHER -> ch

\* s.upper().startswith("PMC")
StartsWithPMC(s) ==
    /\ Len(s) >= 3
    /\ <<Upper(s[1]), Upper(s[2]), Upper(s[3])>> = <<"P", "M", "C">>

\* q in s
IsSubstring(q, s) ==
    \E i \in 1..(Len(s) + 1) : i + Len(q) - 1 <= Len(s) /\ SubSeq(s, i, i + Len(q) - 1) = q

SeqsUpTo(S, n) == UNION {[1..m -> S] : m \in 0..n}

\* what esearch can return
PmidLists == {<<>>, <<P1>>, <<P1, P2>>}

\* what efetch_pubmed_xml can return: an empty text, a text in which the
\* recovering parser finds no root element, or articles with their abstracts
AbstractArts == {[pmid |-> P1, text |-> T1], [pmid |-> P1, text |-> <<>>], [pmid |-> P2, text |-> T2]}

AbstractPayloads ==
    {[kind |-> "blank", arts |-> {}], [kind |-> "treeless", arts |-> {}]}
    \cup {[kind |-> "doc", arts |-> a] :
            a \in {b \in SUBSET AbstractArts : \A x, y \in b : x.pmid = y.pmid => x = y}}

\* what elink_pmc can return for the searched pmids
PmcMaps(ids) ==
    {{}} \cup {{[pmid |-> ids[i], pmcid |-> C5]} : i \in {j \in DOMAIN ids : j = 1}}

\* what efetch_pmc_xml can return
PmcPayloads ==
    {[kind |-> "blank", secs |-> {}], [kind |-> "treeless", secs |-> {}],
     [kind |-> "doc", secs |-> {}],
     [kind |-> "doc", secs |-> {[pmcid |-> C5, name |-> "Results", text |-> T3]}],
     [kind |-> "doc", secs |-> {[pmcid |-> C5, name |-> "Conclusion", text |-> T3]}]}

\* include_sections at its default "Results,Methods,Discussion"
wanted_secs == {"Results", "Methods", "Discussion"}

\* parse_pubmed_abstracts: {} for blank text; no root element: root.findall
\* on None raises (or fromstring itself raises); else pmid -> abstract
parse_pubmed_abstracts(x) ==
    CASE x.kind = "blank" -> [raised |-> FALSE, map |-> {}]
      [] x.kind = "treeless" -> [raised |-> TRUE, map |-> {}]
      [] OTHER -> [raised |-> FALSE, map |-> x.arts]

\* abstracts.get(pmid, "")
AbstractOf(map, pmid) ==
    IF \E a \in map : a.pmid = pmid
    THEN (CHOOSE a \in map : a.pmid = pmid).text
    ELSE <<>>

\* textproc.normalize_whitespace: runs of whitespace become one space, ends trimmed
RECURSIVE Collapse(_)
Collapse(s) ==
    IF Len(s) < 2 THEN s
    ELSE IF s[1] = " " /\ s[2] = " " THEN Collapse(Tail(s))
    ELSE <<s[1]>> \o Collapse(Tail(s))

normalize_whitespace(s) == Strip(Collapse(s))

\* the characters [.!?] of _SENT_SPLIT
Enders == {".", "!", "?"}

\* _SENT_SPLIT.split: cut at each whitespace run that follows an ender; done
\* holds the parts cut so far, part the one being read
RECURSIVE SentSplit(_, _, _)
SentSplit(t, done, part) ==
    IF t = <<>> THEN Append(done, part)
    ELSE IF Head(t) = " " /\ part # <<>> /\ part[Len(part)] \in Enders
    THEN SentSplit(LStrip(t), Append(done, part), <<>>)
    ELSE SentSplit(Tail(t), done, Append(part, Head(t)))

\* textproc.split_sentences
split_sentences(text) ==
    LET t == normalize_whitespace(text)
    IN IF t = <<>> THEN <<>>
       ELSE LET parts == SentSplit(t, <<>>, <<>>)
                stripped == [i \in DOMAIN parts |-> Strip(parts[i])]
            IN SelectSeq(stripped, LAMBDA q : q # <<>>)

\* " ".join(cur)
Join_first(cur) == IF cur = <<>> THEN <<>> ELSE cur[1]

RECURSIVE Join(_)
Join(cur) ==
    IF cur = <<>> THEN <<>>
    ELSE IF Len(cur) = 1 THEN cur[1]
    ELSE cur[1] \o <<" ">> \o Join(Tail(cur))

\* the chunk the loop closes: text and offsets as in the code, and, for the
\* record, the carried-over tail it opened with and the sentences put in it
ClosedChunk(st) ==
    LET chunk_text == Strip(Join(st.cur))
    IN [text |-> chunk_text, start_char |-> st.start,
        end_char |-> st.start + Len(chunk_text),
        tail |-> st.tail, sents |-> st.own]

\* one round of "for s in sents" (textproc.py 49-70)
ChunkRound(st, s, max_chars, overlap) ==
    LET s_len == Len(s) + 1
        close == st.cur # <<>> /\ st.cur_len + s_len > max_chars
        chunk_text == Strip(Join(st.cur))
        tail == IF overlap > 0 /\ Len(chunk_text) > overlap
                THEN SubSeq(chunk_text, Len(chunk_text) - overlap + 1, Len(chunk_text))
                ELSE <<>>
        st1 == IF close
               THEN [chunks |-> Append(st.chunks, ClosedChunk(st)),
                     cur |-> IF tail # <<>> THEN <<tail>> ELSE <<>>,
                     cur_len |-> Len(tail),
                     start |-> st.pos - Len(tail),
                     pos |-> st.pos, tail |-> tail, own |-> <<>>]
               ELSE st
    IN [st1 EXCEPT !.cur = Append(@, s), !.cur_len = @ + s_len,
                   !.pos = @ + s_len, !.own = Append(@, s)]

RECURSIVE ChunkLoop(_, _, _, _)
ChunkLoop(st, sents, max_chars, overlap) ==
    IF sents = <<>> THEN st
    ELSE ChunkLoop(ChunkRound(st, Head(sents), max_chars, overlap), Tail(sents), max_chars, overlap)

\* textproc.chunk_by_chars
chunk_by_chars_noflush(text, max_chars, overlap) ==
    IF text = <<>> THEN <<>>
    ELSE LET st0 == [chunks |-> <<>>, cur |-> <<>>, cur_len |-> 0, start |-> 0,
                     pos |-> 0, tail |-> <<>>, own |-> <<>>]
         IN ChunkLoop(st0, split_sentences(text), max_chars, overlap).chunks

chunk_by_chars(text, max_chars, overlap) ==
    IF text = <<>> THEN <<>>
    ELSE LET st0 == [chunks |-> <<>>, cur |-> <<>>, cur_len |-> 0, start |-> 0,
                     pos |-> 0, tail |-> <<>>, own |-> <<>>]
             st == ChunkLoop(st0, split_sentences(text), max_chars, overlap)
         IN IF st.cur # <<>> THEN Append(st.chunks, ClosedChunk(st)) ELSE st.chunks

\* chunk_chars and overlap of AnswerRequest at their defaults
DefaultChunkChars == 1200
DefaultOverlap == 120

\* the chunk texts of a text under the request's chunking parameters
ChunkTexts(text) ==
    LET parts == chunk_by_chars(text, DefaultChunkChars, DefaultOverlap)
    IN [i \in DOMAIN parts |-> parts[i].text]

\* lines 109-132: one chunk per record with a non-empty abstract
RECURSIVE AbstractChunks(_, _)
AbstractChunks(ids, map) ==
    IF ids = <<>> THEN <<>>
    ELSE LET parts == ChunkTexts(AbstractOf(map, Head(ids)))
         IN [i \in DOMAIN parts |->
                [source |-> "pubmed", pmid |-> Head(ids), pmcid |-> NoId,
                 section |-> "Abstract", text |-> parts[i]]]
            \o AbstractChunks(Tail(ids), map)

\* the ways parse_pmc_sections can end on a payload: fromstring is inside a
\* try, root.xpath is not, so a payload without root element gives {} where
\* fromstring raises and AttributeError where it returns None
parse_pmc_sections(x) ==
    CASE x.kind = "blank" -> {[raised |-> FALSE, secs |-> {}]}
      [] x.kind = "treeless" -> {[raised |-> FALSE, secs |-> {}], [raised |-> TRUE, secs |-> {}]}
      [] OTHER -> {[raised |-> FALSE, secs |-> x.secs]}

\* lines 141-169 for a pmc_map of at most one entry and at most one section
PmcChunks(map, secs) ==
    IF \E m \in map, sec \in secs : sec.pmcid = m.pmcid /\ sec.name \in wanted_secs
    THEN LET m == CHOOSE m \in map : \E sec \in secs : sec.pmcid = m.pmcid /\ sec.name \in wanted_secs
             sec == CHOOSE sec \in secs : sec.pmcid = m.pmcid /\ sec.name \in wanted_secs
             parts == ChunkTexts(sec.text)
         IN [i \in DOMAIN parts |->
                [source |-> "pmc", pmid |-> m.pmid, pmcid |-> m.pmcid,
                 section |-> sec.name, text |-> parts[i]]]
    ELSE <<>>

\* "if not corpus"
no_corpus_never(c) == FALSE

no_corpus(c) == c = <<>>

\* order[: max(1, min(req.top_k, len(order)))]
TopCount(top_k, n) ==
    LET m == IF top_k <= n THEN top_k ELSE n
        c == IF m >= 1 THEN m ELSE 1
    IN IF c <= n THEN c ELSE n

\* the orders the scores can put the corpus indices in
Orders(n) == {o \in [1..n -> 1..n] : \A i, j \in 1..n : o[i] = o[j] => i = j}

\* what the chat completion can come back as
RawCitations ==
    [pmid : {<<>>, P1, <<"9">>},
     pmcid : {<<>>, <<"p", "m", "c", "5">>, <<"9">>},
     quote : {<<>>, <<" ", "a", "b">>, <<"x">>}]

ModelReplies ==
    {[kind |-> "nocreds", answer |-> "", citations |-> <<>>],
     [kind |-> "malformed", answer |-> "", citations |-> <<>>]}
    \cup [kind : {"object"}, answer : {"text", "insufficient_evidence"},
          citations : SeqsUpTo(RawCitations, MaxCites)]

\* synthesis.py 110-120: keep a citation with a quote and one of the ids
Cleaned(citations) ==
    LET kept == SelectSeq(citations,
                   LAMBDA c : Strip(c.quote) # <<>> /\ (Strip(c.pmid) # <<>> \/ Strip(c.pmcid) # <<>>))
    IN [i \in DOMAIN kept |->
           [pmid |-> Strip(kept[i].pmid),
            pmcid |-> IF StartsWithPMC(Strip(kept[i].pmcid))
                      THEN SubSeq(Strip(kept[i].pmcid), 4, Len(Strip(kept[i].pmcid)))
                      ELSE Strip(kept[i].pmcid),
            quote |-> Strip(kept[i].quote)]]

call_openai_json(reply) ==
    CASE reply.kind = "nocreds" ->
            [answer |-> "insufficient_evidence", citations |-> <<>>,
             notes |-> "OpenAI credentials not configured."]
      [] reply.kind = "malformed" ->
            [answer |-> "insufficient_evidence", citations |-> <<>>,
             notes |-> "OpenAI call error or malformed output"]
      [] OTHER ->
            [answer |-> reply.answer, citations |-> Cleaned(reply.citations), notes |-> ""]

\* ch.get("title", "") or ""
TitleOf(ch) == IF "title" \in DOMAIN ch THEN ch.title ELSE <<>>

\* the entry of refs for a chunk: url and pmc_url are empty for an empty id
Reference(ch) ==
    [pmid |-> ch.pmid, pmcid |-> ch.pmcid, title |-> TitleOf(ch),
     url |-> IF ch.pmid = <<>> THEN <<>> ELSE <<"pubmed", "/">> \o ch.pmid,
     pmc_url |-> IF ch.pmcid = <<>> THEN <<>>
                 ELSE <<"pmc", "/", "PMC">> \o ch.pmcid]

RECURSIVE unique_references_last(_)
unique_references_last(chunks) ==
    IF chunks = <<>> THEN <<>>
    ELSE LET rest == Tail(chunks)
             first == Head(chunks)
         IN IF \E i \in DOMAIN rest : rest[i].pmid = first.pmid /\ rest[i].pmcid = first.pmcid
            THEN unique_references_last(rest)
            ELSE <<Reference(first)>> \o unique_references_last(rest)

\* a chunk is appended unless its key (pmid, pmcid) was seen before it
RECURSIVE unique_references(_)
unique_references(chunks) ==
    IF chunks = <<>> THEN <<>>
    ELSE LET init == SubSeq(chunks, 1, Len(chunks) - 1)
             last == chunks[Len(chunks)]
         IN IF \E i \in DOMAIN init : init[i].pmid = last.pmid /\ init[i].pmcid = last.pmcid
            THEN unique_references(init)
            ELSE Append(unique_references(init), Reference(last))

NoReq == [want_fulltext |-> FALSE, top_k |-> 1]
NoXml == [kind |-> "blank", arts |-> {}]
NoPmcXml == [kind |-> "blank", secs |-> {}]
NoResponse ==
    [kind |-> "none", at |-> "", exc |-> "", used_embeddings |-> FALSE,
     answer |-> "", citations |-> <<>>, notes |-> "", references |-> <<>>]

\* the two early returns of the handler
Sentinel(at, notes) ==
    [kind |-> "response", at |-> at, exc |-> "", used_embeddings |-> FALSE,
     answer |-> "insufficient_evidence", citations |-> <<>>, notes |-> notes,
     references |-> <<>>]

\* an exception leaves the handler
Raised(at, exc) == [NoResponse EXCEPT !.kind = "exception", !.at = at, !.exc = exc]

AnswerIdle ==
    /\ apc = "idle"
    /\ req = NoReq
    /\ pmids = <<>>
    /\ meta = Miss
    /\ xml = NoXml
    /\ pmc_map = {}
    /\ pmc_xml = NoPmcXml
    /\ corpus = <<>>
    /\ top_chunks = <<>>
    /\ failed = "none"
    /\ response = NoResponse

\* a request arrives; the previous one, if any, has ended
Receive(want_fulltext, top_k) ==
    /\ apc \in {"idle", "done"}
    /\ apc' = "L85"
    /\ req' = [want_fulltext |-> want_fulltext, top_k |-> top_k]
    /\ pmids' = <<>>
    /\ meta' = Miss
    /\ xml' = NoXml
    /\ pmc_map' = {}
    /\ pmc_xml' = NoPmcXml
    /\ corpus' = <<>>
    /\ top_chunks' = <<>>
    /\ failed' = "none"
    /\ response' = NoResponse
    /\ UNCHANGED <<cvars, lvars, fvars, uvars>>

\* a client operation exhausts its retries at line at: the RetryError leaves
\* the handler, which has no try around the call
FetchFails(at, op) ==
    /\ apc' = "done"
    /\ failed' = op
    /\ response' = Raised(at, "RetryError")

\* lines 85-93
Esearch ==
    /\ apc = "L85"
    /\ \/ /\ FetchFails("L85", "esearch")
          /\ UNCHANGED pmids
       \/ \E ids \in PmidLists :
             /\ pmids' = ids
             /\ IF ids = <<>>
                THEN apc' = "done" /\ response' = Sentinel("L87", "No PubMed hits.")
                ELSE apc' = "L95" /\ UNCHANGED response
             /\ UNCHANGED failed
    /\ UNCHANGED <<req, meta, xml, pmc_map, pmc_xml, corpus, top_chunks>>
    /\ UNCHANGED <<cvars, lvars, fvars, uvars>>

\* line 95
Esummary ==
    /\ apc = "L95"
    /\ \/ /\ FetchFails("L95", "esummary")
          /\ UNCHANGED meta
       \/ /\ meta' \in {"meta", Miss}
          /\ apc' = "L96"
          /\ UNCHANGED <<failed, response>>
    /\ UNCHANGED <<req, pmids, xml, pmc_map, pmc_xml, corpus, top_chunks>>
    /\ UNCHANGED <<cvars, lvars, fvars, uvars>>

\* line 96
EfetchPubmed ==
    /\ apc = "L96"
    /\ \/ /\ FetchFails("L96", "efetch.pubmed")
          /\ UNCHANGED xml
       \/ /\ xml' \in AbstractPayloads
          /\ apc' = "L97"
          /\ UNCHANGED <<failed, response>>
    /\ UNCHANGED <<req, pmids, meta, pmc_map, pmc_xml, corpus, top_chunks>>
    /\ UNCHANGED <<cvars, lvars, fvars, uvars>>

\* lines 97-132: parse the abstracts, assemble the records (meta.get on a
\* None summary raises), collect the abstract chunks
BuildAbstractChunks ==
    /\ apc = "L97"
    /\ LET parsed == parse_pubmed_abstracts(xml)
       IN IF parsed.raised
          THEN /\ apc' = "done"
               /\ response' = Raised("L97", "AttributeError")
               /\ UNCHANGED corpus
          ELSE IF meta = Miss
          THEN /\ apc' = "done"
               /\ response' = Raised("L98", "AttributeError")
               /\ UNCHANGED corpus
          ELSE /\ corpus' = AbstractChunks(pmids, parsed.map)
               /\ apc' = IF req.want_fulltext THEN "L136" ELSE "L171"
               /\ UNCHANGED response
    /\ UNCHANGED <<req, pmids, meta, xml, pmc_map, pmc_xml, top_chunks, failed>>
    /\ UNCHANGED <<cvars, lvars, fvars, uvars>>

\* lines 136-138
ElinkPmc ==
    /\ apc = "L136"
    /\ \/ /\ FetchFails("L136", "elink.pmc")
          /\ UNCHANGED pmc_map
       \/ \E m \in PmcMaps(pmids) :
             /\ pmc_map' = m
             /\ apc' = IF m = {} THEN "L171" ELSE "L139"
             /\ UNCHANGED <<failed, response>>
    /\ UNCHANGED <<req, pmids, meta, xml, pmc_xml, corpus, top_chunks>>
    /\ UNCHANGED <<cvars, lvars, fvars, uvars>>

\* line 139
EfetchPmc ==
    /\ apc = "L139"
    /\ \/ /\ FetchFails("L139", "efetch.pmc")
          /\ UNCHANGED pmc_xml
       \/ /\ pmc_xml' \in PmcPayloads
          /\ apc' = "L140"
          /\ UNCHANGED <<failed, response>>
    /\ UNCHANGED <<req, pmids, meta, xml, pmc_map, corpus, top_chunks>>
    /\ UNCHANGED <<cvars, lvars, fvars, uvars>>

\* lines 140-169
BuildPmcChunks ==
    /\ apc = "L140"
    /\ \E parsed \in parse_pmc_sections(pmc_xml) :
          IF parsed.raised
          THEN /\ apc' = "done"
               /\ response' = Raised("L140", "AttributeError")
               /\ UNCHANGED corpus
          ELSE /\ corpus' = corpus \o PmcChunks(pmc_map, parsed.secs)
               /\ apc' = "L171"
               /\ UNCHANGED response
    /\ UNCHANGED <<req, pmids, meta, xml, pmc_map, pmc_xml, top_chunks, failed>>
    /\ UNCHANGED <<cvars, lvars, fvars, uvars>>

\* lines 171-178
CorpusCheck ==
    /\ apc = "L171"
    /\ IF no_corpus(corpus)
       THEN /\ apc' = "done"
            /\ response' = Sentinel("L172", "No abstracts or full-text sections found for grounding.")
       ELSE /\ apc' = "L180"
            /\ UNCHANGED response
    /\ UNCHANGED <<req, pmids, meta, xml, pmc_map, pmc_xml, corpus, top_chunks, failed>>
    /\ UNCHANGED <<cvars, lvars, fvars, uvars>>

\* lines 180-206: the scores put the corpus in some order, the first
\* max(1, min(top_k, len)) chunks of it are the evidence
Rank ==
    /\ apc = "L180"
    /\ \E order \in Orders(Len(corpus)), used \in BOOLEAN :
          /\ top_chunks' = [i \in 1..TopCount(req.top_k, Len(corpus)) |-> corpus[order[i]]]
          /\ response' = [response EXCEPT !.used_embeddings = used]
    /\ apc' = "L209"
    /\ UNCHANGED <<req, pmids, meta, xml, pmc_map, pmc_xml, corpus, failed>>
    /\ UNCHANGED <<cvars, lvars, fvars, uvars>>

\* lines 209-222: the synthesis call and the response built from it
Synthesize ==
    /\ apc = "L209"
    /\ \E reply \in ModelReplies :
          LET model_obj == call_openai_json(reply)
          IN response' = [kind |-> "response", at |-> "L216", exc |-> "",
                          used_embeddings |-> response.used_embeddings,
                          answer |-> model_obj.answer,
                          citations |-> model_obj.citations,
                          notes |-> model_obj.notes,
                          references |-> unique_references(top_chunks)]
    /\ apc' = "done"
    /\ UNCHANGED <<req, pmids, meta, xml, pmc_map, pmc_xml, corpus, top_chunks, failed>>
    /\ UNCHANGED <<cvars, lvars, fvars, uvars>>

AnswerNext ==
    \/ \E want_fulltext \in BOOLEAN, top_k \in 1..MaxTopK : Receive(want_fulltext, top_k)
    \/ Esearch
    \/ Esummary
    \/ EfetchPubmed
    \/ BuildAbstractChunks
    \/ ElinkPmc
    \/ EfetchPmc
    \/ BuildPmcChunks
    \/ CorpusCheck
    \/ Rank
    \/ Synthesize

\* a citation c is backed by the evidence chunk e
Backs(e, c) ==
    /\ \/ c.pmid # NoId /\ c.pmid = e.pmid
       \/ c.pmcid # NoId /\ c.pmcid = e.pmcid
    /\ IsSubstring(c.quote, e.text)

(***************************************************************************)
(* C9: every citation of a returned answer names a pmid or pmcid of one of *)
(* the evidence chunks given to the synthesis call and quotes a verbatim   *)
(* substring of that chunk's text.                                         *)
(***************************************************************************)
C9_CitationsBackedByEvidence ==
    (apc = "done" /\ response.kind = "response")
        => \A i \in DOMAIN response.citations :
              \E j \in DOMAIN top_chunks : Backs(top_chunks[j], response.citations[i])

\* the response is the no-evidence sentinel
IsSentinel(r) ==
    /\ r.kind = "response"
    /\ r.answer = "insufficient_evidence"
    /\ r.citations = <<>>
    /\ r.references = <<>>
    /\ r.notes # ""

\* the request got to the end of corpus assembly (line 171)
Assembled == response.at \in {"L172", "L216"}

CacheUnused ==
    /\ cache = NoSnap
    /\ now = 0
    /\ lastOp = NoOp
    /\ setAt = [k \in Keys |-> -1]
    /\ usedAt = [k \in Keys |-> -1]

(***************************************************************************)
(* Calls of the pure functions, one call per behaviour: the arguments are  *)
(* drawn at the start and the function is applied in one step.             *)
(***************************************************************************)
NoCallYet == [fn |-> "none"]

HarnessIdle ==
    /\ ufn = "none"
    /\ uarg = NoCallYet
    /\ uout = NoCallYet
    /\ udone = FALSE

\* the step of a call that returns out
Returns(out) ==
    /\ ~udone
    /\ udone' = TRUE
    /\ uout' = out
    /\ UNCHANGED <<ufn, uarg>>
    /\ UNCHANGED <<cvars, lvars, fvars, avars>>

(***************************************************************************)
(* The XML extractors on the payloads of the fetches.                      *)
(***************************************************************************)
P3 == <<"3">>

\* EFetch payloads: articles with distinct PMIDs, each with an abstract text
XmlArts == [pmid : {P1, P2, P3}, text : {<<>>, T1, T2}]

XmlPayloads ==
    {[kind |-> "blank", arts |-> {}], [kind |-> "treeless", arts |-> {}]}
    \cup {[kind |-> "doc", arts |-> a] :
            a \in {b \in SUBSET XmlArts : \A x, y \in b : x.pmid = y.pmid => x = y}}

ParseInit ==
    /\ CacheUnused /\ LockInit /\ FetchIdle /\ inplay = {} /\ AnswerIdle
    /\ udone = FALSE
    /\ uout = NoCallYet
    /\ \/ ufn = "parse_pubmed_abstracts" /\ uarg \in XmlPayloads
       \/ ufn = "parse_pmc_sections" /\ uarg \in PmcPayloads

ParsePubmed ==
    /\ ufn = "parse_pubmed_abstracts"
    /\ Returns(parse_pubmed_abstracts(uarg))

ParsePmc ==
    /\ ufn = "parse_pmc_sections"
    /\ \E out \in parse_pmc_sections(uarg) : Returns(out)

ParseNext == ParsePubmed \/ ParsePmc

(***************************************************************************)
(* C11: neither extractor raises, whatever the payload: the call of        *)
(* parse_pubmed_abstracts or parse_pmc_sections ends with a mapping, also  *)
(* for a payload in which the recovering parser finds no root element.     *)
(***************************************************************************)
C11_ExtractorsNeverRaise == udone => ~uout.raised

(***************************************************************************)
(* chunk_by_chars on every text over a small alphabet.                     *)
(***************************************************************************)
MaxText == 6        \* texts have at most MaxText characters
MaxChunkChars == 4  \* max_chars is drawn from 1..MaxChunkChars
MaxOverlap == 2     \* overlap is drawn from 0..MaxOverlap

Chars == {"a", "b", ".", " "}

Texts == UNION {[1..n -> Chars] : n \in 0..MaxText}

ChunkInit ==
    /\ CacheUnused /\ LockInit /\ FetchIdle /\ inplay = {} /\ AnswerIdle
    /\ udone = FALSE
    /\ uout = NoCallYet
    /\ ufn = "chunk_by_chars"
    /\ uarg \in [text : Texts, max_chars : 1..MaxChunkChars, overlap : 0..MaxOverlap]

Chunk ==
    /\ ufn = "chunk_by_chars"
    /\ Returns(chunk_by_chars(uarg.text, uarg.max_chars, uarg.overlap))

ChunkNext == Chunk

\* the call of chunk_by_chars has returned
Chunked == udone /\ ufn = "chunk_by_chars"

HasContent(text) == \E i \in DOMAIN text : text[i] # " "

(***************************************************************************)
(* C12 (as amended): chunk_by_chars returns at least one chunk for a text  *)
(* that has a character other than whitespace, and the empty list for the  *)
(* empty text and for a text of whitespace only.                           *)
(***************************************************************************)
C12_ChunksIffContent ==
    Chunked => /\ HasContent(uarg.text) => Len(uout) >= 1
               /\ ~HasContent(uarg.text) => uout = <<>>

\* a text with content has been cut into two chunks or more
C12_Witness == Chunked /\ HasContent(uarg.text) /\ Len(uout) >= 2

\* C12 as stated: every non-empty text gives at least one chunk
C12_AsStated ==
    Chunked => /\ uarg.text # <<>> => Len(uout) >= 1
               /\ uarg.text = <<>> => uout = <<>>

\* s is one of the sentences of the text of the call
IsSentence(s) ==
    \E k \in DOMAIN split_sentences(uarg.text) : split_sentences(uarg.text)[k] = s

(***************************************************************************)
(* C13: no chunk's text is longer than max_chars, except a chunk that is   *)
(* one single sentence which is itself longer than max_chars.              *)
(***************************************************************************)
C13_ChunkWithinMaxChars ==
    Chunked =>
        \A i \in DOMAIN uout :
           \/ Len(uout[i].text) <= uarg.max_chars
           \/ IsSentence(uout[i].text)

\* the last n characters of s
Suffix(s, n) == SubSeq(s, Len(s) - n + 1, Len(s))

IsPrefix(p, s) == Len(p) <= Len(s) /\ SubSeq(s, 1, Len(p)) = p

(***************************************************************************)
(* C14: with overlap > 0 and two chunks or more, each chunk after the      *)
(* first begins with the last min(overlap, len) characters of the chunk    *)
(* before it.                                                              *)
(***************************************************************************)
C14_NextChunkOpensWithOverlap ==
    (Chunked /\ uarg.overlap > 0 /\ Len(uout) >= 2) =>
        \A i \in 1..(Len(uout) - 1) :
           IsPrefix(Suffix(uout[i].text, Min2(uarg.overlap, Len(uout[i].text))),
                    uout[i + 1].text)

\* Python's s[a:b] for 0 <= a
Slice(s, a, b) == SubSeq(s, a + 1, Min2(b, Len(s)))

(***************************************************************************)
(* C15: for every chunk, end_char - start_char is the length of its text   *)
(* and the source text sliced at [start_char, end_char) is its text.       *)
(***************************************************************************)
C15_OffsetsSliceSource ==
    Chunked =>
        \A i \in DOMAIN uout :
           /\ uout[i].end_char - uout[i].start_char = Len(uout[i].text)
           /\ Slice(uarg.text, uout[i].start_char, uout[i].end_char) = uout[i].text

\* the sentences put into chunks 1..n, in order
RECURSIVE SentsOf(_, _)
SentsOf(chunks, n) == IF n = 0 THEN <<>> ELSE SentsOf(chunks, n - 1) \o chunks[n].sents

\* the text of a chunk is its carried-over tail and its sentences, joined
TextOf(c) == Strip(Join((IF c.tail # <<>> THEN <<c.tail>> ELSE <<>>) \o c.sents))

MaxCorpus == 3      \* the corpus has 1..MaxCorpus chunks
MaxScore == 2       \* final scores are drawn from 0..MaxScore
MaxRankK == 3       \* top_k is drawn from 0..MaxRankK

ScoreLists == UNION {[1..n -> 0..MaxScore] : n \in 1..MaxCorpus}

KeepsBefore_strict(x, y) == x > y

\* sorted(..., reverse=True) is stable: an element already placed, of key x,
\* stays before a later element of key y unless y is strictly larger
KeepsBefore(x, y) == x >= y

RECURSIVE InsertDesc(_, _, _)
InsertDesc(order, i, scores) ==
    IF order = <<>> THEN <<i>>
    ELSE IF KeepsBefore(scores[Head(order)], scores[i])
         THEN <<Head(order)>> \o InsertDesc(Tail(order), i, scores)
         ELSE <<i>> \o order

RECURSIVE SortedUpTo(_, _)
SortedUpTo(scores, m) ==
    IF m = 0 THEN <<>> ELSE InsertDesc(SortedUpTo(scores, m - 1), m, scores)

\* order = sorted(range(len(corpus)), key=lambda i: scores[i], reverse=True)
sorted_desc(scores) == SortedUpTo(scores, Len(scores))

\* top_idxs = order[: max(1, min(top_k, len(order)))]
top_idxs(scores, top_k) ==
    SubSeq(sorted_desc(scores), 1, TopCount(top_k, Len(scores)))

RankInit ==
    /\ CacheUnused /\ LockInit /\ FetchIdle /\ inplay = {} /\ AnswerIdle
    /\ udone = FALSE
    /\ uout = NoCallYet
    /\ ufn = "select"
    /\ uarg \in [scores : ScoreLists, top_k : 0..MaxRankK]

Select ==
    /\ ufn = "select"
    /\ Returns(top_idxs(uarg.scores, uarg.top_k))

RankNext == Select

\* the selection has been made
Ranked == udone /\ ufn = "select"

\* index a comes before index b in the ranking by the scores s
RanksBefore(s, a, b) == s[a] > s[b] \/ (s[a] = s[b] /\ a < b)

ExpectedCount(top_k, n) ==
    LET k == IF top_k >= 1 THEN top_k ELSE 1
    IN IF k <= n THEN k ELSE n

(***************************************************************************)
(* C17: the selected indices are the corpus indices in descending order of *)
(* final score, indices of equal score in corpus order, cut to exactly     *)
(* min(max(top_k, 1), corpus size) distinct indices: every index left out  *)
(* ranks after every index selected.                                       *)
(***************************************************************************)
C17_SelectionIsStableTopK ==
    Ranked =>
        LET s == uarg.scores
            n == Len(s)
            r == uout
        IN /\ Len(r) = ExpectedCount(uarg.top_k, n)
           /\ \A i \in DOMAIN r : r[i] \in 1..n
           /\ \A i, j \in DOMAIN r : i < j => RanksBefore(s, r[i], r[j])
           /\ \A x \in 1..n :
                 (\A i \in DOMAIN r : r[i] # x) =>
                     \A i \in DOMAIN r : RanksBefore(s, r[i], x)

\* a selection that reorders the corpus, keeps two chunks of equal score and
\* leaves a chunk out
C17_Witness ==
    /\ Ranked
    /\ Len(uout) >= 2 /\ Len(uout) < Len(uarg.scores)
    /\ uout[1] # 1
    /\ \E i, j \in DOMAIN uout :
          i < j /\ uarg.scores[uout[i]] = uarg.scores[uout[j]]

(***************************************************************************)
(* bm25_scores on small corpora.  A document and the query are the token   *)
(* lists that tokenize_lower returns.  The scoring reads a document only   *)
(* through its length, its set of tokens and its token counts, so the      *)
(* documents drawn have their tokens in alphabetical order.  A score is    *)
(* kept as a pair lo <= score <= hi of integers in units of 1/10000: the   *)
(* rational part of a term is exact, the logarithm is enclosed by a table. *)
(***************************************************************************)
MaxDocs == 3        \* the corpus has 0..MaxDocs documents
MaxDocLen == 2      \* a document has 0..MaxDocLen tokens

Vocab == {"a", "b"}


Docs == {d \in UNION {[1..n -> Vocab] : n \in 0..MaxDocLen} :
            \A i, j \in DOMAIN d : i < j => ~(d[i] = "b" /\ d[j] = "a")}

Corpora == UNION {[1..n -> Docs] : n \in 0..MaxDocs}

Queries == {<<>>, <<"a">>, <<"a", "b">>, <<"a", "a">>}

\* k1 = 1.2 and b = 0.75 as fractions
K1Num == 12
K1Den == 10
BNum == 3
BDen == 4

\* floor(10000 * ln k) for k = 1..14
LnTable ==
    <<0, 6931, 10986, 13862, 16094, 17917, 19459,
      20794, 21972, 23025, 23978, 24849, 25649, 26390>>

LnLo(k) == LnTable[k]

LnHi(k) == IF k = 1 THEN 0 ELSE LnTable[k] + 1

\* tf[t] of a document
Count(dt, t) == Cardinality({j \in DOMAIN dt : dt[j] = t})

\* df[t]: the number of documents that have t
DocFreq(D_tokens, t) ==
    Cardinality({i \in DOMAIN D_tokens : Count(D_tokens[i], t) > 0})

IdfArgNum_plain(N, n) == 2 * (N - n) + 1

\* (N - n + 0.5) / (n + 0.5) + 1.0 = (2N + 2) / (2n + 1): the numerator
IdfArgNum(N, n) == 2 * N + 2

IdfArgDen(n) == 2 * n + 1

\* idf(t) = math.log((N - n + 0.5) / (n + 0.5) + 1.0)
idf(D_tokens, t) ==
    LET N == Len(D_tokens)
        n == DocFreq(D_tokens, t)
    IN [lo |-> LnLo(IdfArgNum(N, n)) - LnHi(IdfArgDen(n)),
        hi |-> LnHi(IdfArgNum(N, n)) - LnLo(IdfArgDen(n))]

RECURSIVE SumLen(_)
SumLen(D_tokens) ==
    IF D_tokens = <<>> THEN 0 ELSE Len(Head(D_tokens)) + SumLen(Tail(D_tokens))

TermNum_flat(tf, S) == (K1Num + K1Den) * BDen * S

\* (tf * (k1 + 1)) / (tf + denom), denom = k1 * (1 - b + b * dl / avgdl) and
\* avgdl = S / N, as the fraction TermNum / TermDen
TermNum(tf, S) == (K1Num + K1Den) * BDen * S * tf

TermDen(tf, dl, N, S) ==
    K1Den * BDen * S * tf + K1Num * ((BDen - BNum) * S + BNum * dl * N)

\* idf(t) * (tf[t] * (k1 + 1)) / (tf[t] + denom), for tf[t] > 0
Term(D_tokens, i, t) ==
    LET tf == Count(D_tokens[i], t)
        num == TermNum(tf, SumLen(D_tokens))
        den == TermDen(tf, Len(D_tokens[i]), Len(D_tokens), SumLen(D_tokens))
        w == idf(D_tokens, t)
    IN [lo |-> (w.lo * num) \div den,
        hi |-> (w.hi * num + den - 1) \div den]

\* the loop over q_tokens for document i
RECURSIVE DocScore(_, _, _)
DocScore(q_tokens, D_tokens, i) ==
    IF q_tokens = <<>> THEN [lo |-> 0, hi |-> 0]
    ELSE LET rest == DocScore(Tail(q_tokens), D_tokens, i)
             t == Head(q_tokens)
         IN IF Count(D_tokens[i], t) = 0 THEN rest
            ELSE [lo |-> rest.lo + Term(D_tokens, i, t).lo,
                  hi |-> rest.hi + Term(D_tokens, i, t).hi]

bm25_scores(q_tokens, D_tokens) ==
    [i \in 1..Len(D_tokens) |-> DocScore(q_tokens, D_tokens, i)]

Bm25Init ==
    /\ CacheUnused /\ LockInit /\ FetchIdle /\ inplay = {} /\ AnswerIdle
    /\ udone = FALSE
    /\ uout = NoCallYet
    /\ ufn = "bm25_scores"
    /\ uarg \in [query : Queries, docs : Corpora]

Bm25Score ==
    /\ ufn = "bm25_scores"
    /\ Returns(bm25_scores(uarg.query, uarg.docs))

\* one more occurrence of the query token t in document i, everything else
\* as it was, and the corpus scored again
Bm25Rescore ==
    /\ ufn = "bm25_scores" /\ udone
    /\ \E i \in DOMAIN uarg.docs, k \in DOMAIN uarg.query :
          LET t == uarg.query[k]
              docs2 == [uarg.docs EXCEPT ![i] = Append(@, t)]
          IN /\ ufn' = "bm25_rescored"
             /\ uarg' = [query |-> uarg.query, docs |-> docs2, i |-> i,
                         t |-> t, before |-> uout]
             /\ uout' = bm25_scores(uarg.query, docs2)
    /\ UNCHANGED udone
    /\ UNCHANGED <<cvars, lvars, fvars, avars>>

Bm25Next == Bm25Score \/ Bm25Rescore

\* the corpus of the state has been scored
Scored == udone /\ ufn \in {"bm25_scores", "bm25_rescored"}

Matches(q_tokens, dt) ==
    \E k \in DOMAIN q_tokens : Count(dt, q_tokens[k]) > 0

\* the query has one term, possibly repeated
OneTerm(q_tokens) ==
    q_tokens # <<>> /\ \A k \in DOMAIN q_tokens : q_tokens[k] = q_tokens[1]

(***************************************************************************)
(* C18 (as amended): for a query of one term, one more occurrence of that  *)
(* term in a document, everything else as it was, never lowers the BM25    *)
(* score of that document: the lower end of the new score is not below     *)
(* the upper end of the old one.                                           *)
(***************************************************************************)
C18_OneTermNeverLower ==
    (udone /\ ufn = "bm25_rescored" /\ OneTerm(uarg.query)) =>
        uout[uarg.i].lo >= uarg.before[uarg.i].hi

\* a document that had the term of a one-term query gets one more
\* occurrence, next to a document that was longer and has the term too
C18_Witness ==
    /\ udone /\ ufn = "bm25_rescored" /\ OneTerm(uarg.query)
    /\ uarg.before[uarg.i].lo > 0
    /\ \E j \in DOMAIN uarg.docs :
          /\ j # uarg.i
          /\ Len(uarg.docs[j]) >= Len(uarg.docs[uarg.i])
          /\ uarg.before[j].lo > 0

(***************************************************************************)
(* C18 as stated: one more occurrence of a query token in a document,      *)
(* everything else as it was, never lowers the BM25 score of that          *)
(* document, whatever the query.  The formula asks that the scores allow   *)
(* it: the upper end of the new score is not below the lower end of the    *)
(* old one.                                                                *)
(***************************************************************************)
C18_MoreOccurrencesNeverLower ==
    (udone /\ ufn = "bm25_rescored") =>
        uout[uarg.i].hi >= uarg.before[uarg.i].lo

(***************************************************************************)
(* C19: in a scored corpus a document that has none of the query tokens    *)
(* scores exactly 0 and a document that has one scores strictly above 0,   *)
(* so every matching document outscores every document that does not       *)
(* match.                                                                  *)
(***************************************************************************)
C19_LexicalSignal ==
    Scored =>
        /\ \A i \in DOMAIN uout :
              IF Matches(uarg.query, uarg.docs[i])
              THEN uout[i].lo > 0
              ELSE uout[i] = [lo |-> 0, hi |-> 0]
        /\ \A i, j \in DOMAIN uout :
              (Matches(uarg.query, uarg.docs[i])
                  /\ ~Matches(uarg.query, uarg.docs[j]))
              => uout[i].lo > uout[j].hi

\* a scored corpus with a matching document, one that does not match, and a
\* query token that every document with tokens has
C19_Witness ==
    /\ Scored /\ ufn = "bm25_scores"
    /\ Len(uarg.docs) >= 2
    /\ \E i, j \in DOMAIN uarg.docs :
          /\ Matches(uarg.query, uarg.docs[i])
          /\ ~Matches(uarg.query, uarg.docs[j])
          /\ DocFreq(uarg.docs, uarg.query[1]) = Len(uarg.docs) - 1

(***************************************************************************)
(* freshness_score.  The half-life is counted in tenths of a year, and a   *)
(* score 2.0 ** (-age / half_life) is kept as its exponent, the fraction   *)
(* num / den with den > 0: 1.0 is the exponent 0, 0.5 the exponent -1, and *)
(* a score is below another exactly when its exponent is.                  *)
(***************************************************************************)
MaxYear == 4        \* year and now_year are drawn from 0..MaxYear
MaxHalfLife == 20   \* half_life_years is drawn from 0..MaxHalfLife tenths

\* year is None, or <<y>> for the year y
NoYear == <<>>

\* 0.5 = 2.0 ** -1
HalfScore == [num |-> -1, den |-> 1]

age_unclamped(d) == d

\* age = max(0.0, float(now_year - year))
age(d) == IF d > 0 THEN d ELSE 0

\* max(half_life_years, 0.1), in tenths
HalfLifeFloor(half_life) == IF half_life > 1 THEN half_life ELSE 1

freshness_score(year, now_year, half_life) ==
    IF year = NoYear THEN HalfScore
    ELSE [num |-> -(10 * age(now_year - year[1])),
          den |-> HalfLifeFloor(half_life)]

FreshInit ==
    /\ CacheUnused /\ LockInit /\ FetchIdle /\ inplay = {} /\ AnswerIdle
    /\ udone = FALSE
    /\ uout = NoCallYet
    /\ ufn = "freshness_score"
    /\ uarg \in [year : {NoYear} \cup {<<y>> : y \in 0..MaxYear},
                 now_year : 0..MaxYear, half_life : 0..MaxHalfLife]

Freshness ==
    /\ ufn = "freshness_score"
    /\ Returns(freshness_score(uarg.year, uarg.now_year, uarg.half_life))

\* the call again for a year one earlier, the rest as it was
FreshnessOlder ==
    /\ ufn = "freshness_score" /\ udone
    /\ uarg.year # NoYear
    /\ ufn' = "freshness_older"
    /\ uarg' = [year |-> <<uarg.year[1] - 1>>, now_year |-> uarg.now_year,
                half_life |-> uarg.half_life, before |-> uout]
    /\ uout' = freshness_score(<<uarg.year[1] - 1>>, uarg.now_year,
                                uarg.half_life)
    /\ UNCHANGED udone
    /\ UNCHANGED <<cvars, lvars, fvars, avars>>

FreshNext == Freshness \/ FreshnessOlder

\* freshness_score has returned for a known year
Freshened ==
    udone /\ ufn \in {"freshness_score", "freshness_older"} /\ uarg.year # NoYear

IsOne(x) == x.num = 0

IsHalf(x) == x.num = -x.den

Below(x, y) == x.num * y.den < y.num * x.den

MaxBm == 2          \* raw lexical scores are drawn from 0..MaxBm

\* chunk_meta[i]: is the study type preferred, which section, and the raw
\* lexical and freshness scores of the chunk
RankedChunks ==
    [bm : 0..MaxBm, fresh : 0..1, preferred : BOOLEAN,
     section : {"None", "Methods"}]

RankInputs == [1..3 -> RankedChunks]

FreshnessWeights == {0, 3, 5}

Ints(x) == [num |-> x, den |-> 1]

RECURSIVE MinOf(_)
MinOf(x) ==
    IF Len(x) = 1 THEN x[1]
    ELSE LET m == MinOf(Tail(x)) IN IF x[1] < m THEN x[1] ELSE m

RECURSIVE MaxOf(_)
MaxOf(x) ==
    IF Len(x) = 1 THEN x[1]
    ELSE LET m == MaxOf(Tail(x)) IN IF x[1] > m THEN x[1] ELSE m

minmax_identity(x) == x

\* (v - lo) / (hi - lo), or all 0.0 when hi = lo; the common denominator of
\* the list cancels
minmax(x) ==
    IF x.num = <<>> THEN x
    ELSE LET lo == MinOf(x.num)
             hi == MaxOf(x.num)
         IN IF hi - lo = 0
            THEN [num |-> [i \in DOMAIN x.num |-> 0], den |-> 1]
            ELSE [num |-> [i \in DOMAIN x.num |-> x.num[i] - lo],
                  den |-> hi - lo]

\* hybrid_scores with cos_scores None: bm_n
hybrid_scores(bm) == minmax(bm)

\* (1.0 - fw) * ci + fw * fi, fw clamped to 0..1
blend_with_freshness(content_scores, fresh_scores, freshness_weight) ==
    LET c == minmax(content_scores)
        f == minmax(fresh_scores)
        fw == IF freshness_weight < 0 THEN 0
              ELSE IF freshness_weight > 10 THEN 10 ELSE freshness_weight
    IN [num |-> [i \in DOMAIN c.num |->
                    (10 - fw) * c.num[i] * f.den + fw * f.num[i] * c.den],
        den |-> 10 * c.den * f.den]

\* 1.2 for a preferred study type, else 1.0
preference_boost(preferred) == IF preferred THEN 24 ELSE 20

\* SECTION_WEIGHTS.get(section, 1.0)
section_boost(section) ==
    CASE section = "Results" -> 24
      [] section = "Methods" -> 22
      [] section \in {"Discussion", "Conclusion", "Limitations"} -> 21
      [] OTHER -> 20

\* sc * preference_boost(...) * section_boost(...)
Boosted(scores, chunk_meta) ==
    [num |-> [i \in DOMAIN scores.num |->
                 scores.num[i] * preference_boost(chunk_meta[i].preferred)
                               * section_boost(chunk_meta[i].section)],
     den |-> scores.den * 400]

\* the scores of grounded_answer: normalize, blend, then boost
final_scores(chunk_meta, fw) ==
    Boosted(blend_with_freshness(
                hybrid_scores(Ints([i \in DOMAIN chunk_meta |-> chunk_meta[i].bm])),
                Ints([i \in DOMAIN chunk_meta |-> chunk_meta[i].fresh]), fw),
            chunk_meta)

\* the same stages with the multipliers applied to the raw scores, before
\* the normalizations
boosted_first_scores(chunk_meta, fw) ==
    blend_with_freshness(
        hybrid_scores(Boosted(Ints([i \in DOMAIN chunk_meta |-> chunk_meta[i].bm]),
                              chunk_meta)),
        Ints([i \in DOMAIN chunk_meta |-> chunk_meta[i].fresh]), fw)

BoostInit ==
    /\ CacheUnused /\ LockInit /\ FetchIdle /\ inplay = {} /\ AnswerIdle
    /\ udone = FALSE
    /\ uout = NoCallYet
    /\ ufn = "final_scores"
    /\ uarg \in [chunk_meta : RankInputs, freshness_weight : FreshnessWeights]

ScoreBothWays ==
    /\ ufn = "final_scores"
    /\ Returns([after |-> final_scores(uarg.chunk_meta, uarg.freshness_weight),
                before |-> boosted_first_scores(uarg.chunk_meta,
                                                uarg.freshness_weight)])

BoostNext == ScoreBothWays

\* both score lists have been computed
BothScored == udone /\ ufn = "final_scores"

\* two score lists put the chunks in the same relative order
SameOrdering(a, b) ==
    \A i, j \in DOMAIN a.num :
        (a.num[i] < a.num[j]) <=> (b.num[i] < b.num[j])

Multiplier(c) == preference_boost(c.preferred) * section_boost(c.section)

UniformBoost(chunk_meta) ==
    \A i, j \in DOMAIN chunk_meta :
        Multiplier(chunk_meta[i]) = Multiplier(chunk_meta[j])

(***************************************************************************)
(* C21 (as amended): when every chunk has the same preference and section  *)
(* multipliers, multiplying the scores after the normalization and blend   *)
(* stages gives the same relative ordering of the chunks as multiplying    *)
(* the raw scores before those stages.                                     *)
(***************************************************************************)
C21_UniformBoostKeepsOrdering ==
    (BothScored /\ UniformBoost(uarg.chunk_meta)) =>
        SameOrdering(uout.after, uout.before)

\* all chunks boosted alike, above 1.0, with three different final scores to
\* which both the lexical and the freshness score contribute
C21_Witness ==
    /\ BothScored /\ UniformBoost(uarg.chunk_meta)
    /\ Multiplier(uarg.chunk_meta[1]) > 400
    /\ uarg.freshness_weight = 3
    /\ \A i, j \in 1..3 : i # j => uout.after.num[i] # uout.after.num[j]
    /\ \E i, j \in 1..3 : uarg.chunk_meta[i].fresh # uarg.chunk_meta[j].fresh

\* C21 as stated: for any multipliers, boosting after the normalization and
\* blend stages orders the chunks as boosting before them does
C21_AsStated ==
    BothScored => SameOrdering(uout.after, uout.before)

(***************************************************************************)
(* unique_references on lists of ranked chunks.                            *)
(***************************************************************************)
MaxRefChunks == 3   \* the list has 0..MaxRefChunks chunks

RefChunks == [pmid : {<<>>, P1}, pmcid : {<<>>, C5}, title : {T1, T2}]

RefInit ==
    /\ CacheUnused /\ LockInit /\ FetchIdle /\ inplay = {} /\ AnswerIdle
    /\ udone = FALSE
    /\ uout = NoCallYet
    /\ ufn = "unique_references"
    /\ uarg \in UNION {[1..n -> RefChunks] : n \in 0..MaxRefChunks}

References ==
    /\ ufn = "unique_references"
    /\ Returns(unique_references(uarg))

RefNext == References

\* unique_references has returned
Referenced == udone /\ ufn = "unique_references"

SameKey(a, b) == a.pmid = b.pmid /\ a.pmcid = b.pmcid

\* the position in chunks of the first chunk with the key of x
FirstWith(chunks, x) ==
    CHOOSE i \in DOMAIN chunks :
        /\ SameKey(chunks[i], x)
        /\ \A j \in DOMAIN chunks : SameKey(chunks[j], x) => i <= j

(***************************************************************************)
(* C22: the output of unique_references has exactly one reference for      *)
(* each pair (pmid, pmcid) that occurs in the input and none for any other *)
(* pair, each reference carries the title of the first chunk with its      *)
(* pair, and the references come in the order in which their pairs first   *)
(* occur in the input.                                                     *)
(***************************************************************************)
C22_OneReferencePerPair ==
    Referenced =>
        /\ \A i \in DOMAIN uarg :
              Cardinality({k \in DOMAIN uout : SameKey(uout[k], uarg[i])}) = 1
        /\ \A k \in DOMAIN uout :
              /\ \E i \in DOMAIN uarg : SameKey(uarg[i], uout[k])
              /\ uout[k].title = uarg[FirstWith(uarg, uout[k])].title
        /\ \A k, l \in DOMAIN uout :
              k < l => FirstWith(uarg, uout[k]) < FirstWith(uarg, uout[l])

\* a pair occurs twice with different titles around a chunk of another pair
C22_Witness ==
    /\ Referenced
    /\ Len(uarg) = 3 /\ Len(uout) = 2
    /\ SameKey(uarg[1], uarg[3]) /\ uarg[1].title # uarg[3].title
    /\ uout[1].title = uarg[1].title

(***************************************************************************)
(* The loop of parse_pubmed_abstracts over the PubmedArticle elements of a *)
(* parsed document.  An article is its first PMID text (empty when it has  *)
(* none) and the texts of its Abstract/AbstractText nodes, in document     *)
(* order.                                                                  *)
(***************************************************************************)
MaxSegments == 2    \* an article has 0..MaxSegments AbstractText nodes

SegmentTexts == {<<>>, <<"a">>, <<" ", "b">>}

PubmedArticles ==
    [pmid : {<<>>, P1, P2},
     nodes : UNION {[1..n -> SegmentTexts] : n \in 0..MaxSegments}]

PubmedDocs == UNION {[1..n -> PubmedArticles] : n \in 0..2}

\* "\n".join(parts)
RECURSIVE JoinLines(_)
JoinLines(parts) ==
    IF parts = <<>> THEN <<>>
    ELSE IF Len(parts) = 1 THEN parts[1]
    ELSE parts[1] \o <<NL>> \o JoinLines(Tail(parts))

\* "\n".join(tostring(n).strip() for n in nodes).strip()
abstract_text(nodes) ==
    Strip(JoinLines([i \in DOMAIN nodes |-> Strip(nodes[i])]))

skips_never(pmid) == FALSE

\* "if not pmid: continue"
skips(pmid) == pmid = <<>>

\* out after the loop over the articles: out[pmid] = text
RECURSIVE articles_loop(_)
articles_loop(arts) ==
    IF arts = <<>> THEN <<>>
    ELSE LET out == articles_loop(SubSeq(arts, 1, Len(arts) - 1))
             art == arts[Len(arts)]
         IN IF skips(art.pmid) THEN out
            ELSE [k \in DOMAIN out \cup {art.pmid} |->
                     IF k = art.pmid THEN abstract_text(art.nodes) ELSE out[k]]

ArticlesInit ==
    /\ CacheUnused /\ LockInit /\ FetchIdle /\ inplay = {} /\ AnswerIdle
    /\ udone = FALSE
    /\ uout = NoCallYet
    /\ ufn = "articles_loop"
    /\ uarg \in PubmedDocs

ParseArticles ==
    /\ ufn = "articles_loop"
    /\ Returns(articles_loop(uarg))

ArticlesNext == ParseArticles

\* the articles of the document have been parsed
ArticlesParsed == udone /\ ufn = "articles_loop"

\* article i is the last article of the document with its identifier
LastWithId(arts, i) ==
    \A j \in DOMAIN arts : arts[j].pmid = arts[i].pmid => j <= i

\* no whitespace at either end
Trimmed(s) == Strip(s) = s

(***************************************************************************)
(* C23 (as amended): the result of parse_pubmed_abstracts has an entry for *)
(* exactly the identifiers of the documents that have one; the entry of an *)
(* identifier is the text of the last document with that identifier: its   *)
(* abstract-text segments, each stripped of surrounding whitespace, in     *)
(* document order and joined by newline, the whole stripped again, so the  *)
(* plain join by newline when every segment has text, and the empty string *)
(* when the document has no abstract segment.                              *)
(***************************************************************************)
C23_AbstractsByIdentifier ==
    ArticlesParsed =>
        /\ DOMAIN uout = {uarg[i].pmid : i \in {j \in DOMAIN uarg : uarg[j].pmid # <<>>}}
        /\ \A i \in DOMAIN uarg :
              (uarg[i].pmid # <<>> /\ LastWithId(uarg, i)) =>
                  LET segs == [k \in DOMAIN uarg[i].nodes |-> Strip(uarg[i].nodes[k])]
                      text == uout[uarg[i].pmid]
                  IN /\ Trimmed(text)
                     /\ segs = <<>> => text = <<>>
                     /\ (\A k \in DOMAIN segs : segs[k] # <<>>) =>
                            text = JoinLines(segs)
                     /\ text = Strip(JoinLines(segs))

\* a document without identifier next to one whose two segments have text
C23_Witness ==
    /\ ArticlesParsed
    /\ Len(uarg) = 2 /\ uarg[1].pmid = <<>> /\ uarg[2].pmid = P1
    /\ uarg[2].nodes = <<<<"a">>, <<" ", "b">>>>
    /\ uout[P1] = <<"a", NL, "b">>

\* C23 as stated: every document with an identifier has an entry and the
\* entry is its segments joined by newline, documents without identifier
\* have none
C23_AsStated ==
    ArticlesParsed =>
        /\ DOMAIN uout = {uarg[i].pmid : i \in {j \in DOMAIN uarg : uarg[j].pmid # <<>>}}
        /\ \A i \in DOMAIN uarg :
              uarg[i].pmid # <<>> => uout[uarg[i].pmid] = JoinLines(uarg[i].nodes)

(***************************************************************************)
(* The identifier of an article in parse_pmc_sections.  An article is      *)
(* given by the text nodes the three lookups find, in document order:      *)
(* typed, of the article-id elements whose pub-id-type is pmcid; others,   *)
(* of the other article-id elements; generic, of the id elements.          *)
(***************************************************************************)
MaxIds == 1         \* an article has 0..MaxIds texts of each kind

IdTexts ==
    {<<"P", "M", "C", "1", "2">>, <<"p", "m", "c", "1">>, <<"1", "2">>,
     <<"P", "M", "2">>, <<"x">>, <<" ">>, <<"P", "M", "C", "1", ".", "2">>}

IdLists == UNION {[1..n -> IdTexts] : n \in 0..MaxIds}

Digits == {"1", "2"}

\* the longest run of digits at the start of s: (\d+)
RECURSIVE DigitRun(_)
DigitRun(s) ==
    IF s # <<>> /\ Head(s) \in Digits THEN <<Head(s)>> \o DigitRun(Tail(s))
    ELSE <<>>

\* the match of PMC?(\d+) at the start of s with re.IGNORECASE: its group,
\* or <<>> for no match
MatchHere(s) ==
    IF Len(s) >= 3 /\ Upper(s[1]) = "P" /\ Upper(s[2]) = "M"
    THEN IF Upper(s[3]) = "C" THEN DigitRun(SubSeq(s, 4, Len(s)))
         ELSE DigitRun(SubSeq(s, 3, Len(s)))
    ELSE <<>>

\* re.search(r"PMC?(\d+)", t, re.IGNORECASE): group 1, or <<>> for None
RECURSIVE re_search(_)
re_search(t) ==
    IF t = <<>> THEN <<>>
    ELSE IF MatchHere(t) # <<>> THEN MatchHere(t)
    ELSE re_search(Tail(t))

\* [t.strip() for t in ... if t and t.strip()]
RECURSIVE StrippedTexts(_)
StrippedTexts(ts) ==
    IF ts = <<>> THEN <<>>
    ELSE IF Strip(Head(ts)) = <<>> THEN StrippedTexts(Tail(ts))
    ELSE <<Strip(Head(ts))>> \o StrippedTexts(Tail(ts))

\* the loop "for t in ...: m = re.search(...); if m: pmcid = m.group(1); break"
RECURSIVE FirstMatch(_)
FirstMatch(ts) ==
    IF ts = <<>> THEN <<>>
    ELSE IF re_search(Head(ts)) # <<>> THEN re_search(Head(ts))
    ELSE FirstMatch(Tail(ts))

\* pmcid of an article, <<>> for None or "": the article is skipped
resolve_pmcid(art) ==
    LET first == IF art.typed # <<>>
                 THEN LET t == Strip(art.typed[1])
                      IN IF StartsWithPMC(t) THEN SubSeq(t, 4, Len(t)) ELSE t
                 ELSE FirstMatch(StrippedTexts(art.others))
    IN IF first # <<>> THEN first
       ELSE FirstMatch(StrippedTexts(art.generic))

ResolveInit ==
    /\ CacheUnused /\ LockInit /\ FetchIdle /\ inplay = {} /\ AnswerIdle
    /\ udone = FALSE
    /\ uout = NoCallYet
    /\ ufn = "resolve_pmcid"
    /\ uarg \in [typed : IdLists, others : IdLists, generic : IdLists]

Resolve ==
    /\ ufn = "resolve_pmcid"
    /\ Returns(resolve_pmcid(uarg))

ResolveNext == Resolve

\* the identifier of the article has been looked up
Resolved == udone /\ ufn = "resolve_pmcid"

AllDigits(s) == s # <<>> /\ \A i \in DOMAIN s : s[i] \in Digits

\* the text matches the identifier pattern
MatchesPattern(t) == re_search(t) # <<>>

(***************************************************************************)
(* C24: the identifier of an article comes from the typed identifier field *)
(* if there is one, otherwise from the first identifier field that matches *)
(* the identifier pattern, otherwise from the first generic identifier     *)
(* text that matches it; an article is skipped only when none of them      *)
(* yields an identifier; and the identifier is digits only.                *)
(***************************************************************************)
C24_IdentifierResolution ==
    Resolved =>
        /\ uout # <<>> => AllDigits(uout)
        /\ uarg.typed # <<>> =>
              \E k \in 1..Len(uarg.typed[1]) :
                  uout = SubSeq(uarg.typed[1], k, Len(uarg.typed[1]))
        /\ (uarg.typed = <<>> /\ \E i \in DOMAIN uarg.others : MatchesPattern(uarg.others[i])) =>
              uout = FirstMatch(uarg.others)
        /\ (uarg.typed = <<>> /\ \A i \in DOMAIN uarg.others : ~MatchesPattern(uarg.others[i])) =>
              uout = FirstMatch(uarg.generic)

(***************************************************************************)
(* The sections of an article in parse_pmc_sections.  A section is given   *)
(* by its sec-type attribute and the text nodes of its titles and of its   *)
(* paragraphs, in document order.                                          *)
(***************************************************************************)
MaxParas == 1       \* a section has 0..MaxParas paragraph text nodes

Lower(ch) ==
    CASE ch = "R" -> "r" [] ch = "M" -> "m" [] ch = "I" -> "i" [] OTHER -> ch

LowerAll(s) == [i \in DOMAIN s |-> Lower(s[i])]

\* wanted = ("results", "methods", "discussion", "conclusion", "limitations")
\* with k.capitalize() for the name of the bucket
wanted ==
    <<[word |-> <<"r", "e", "s", "u", "l", "t", "s">>, bucket |-> "Results"],
      [word |-> <<"m", "e", "t", "h", "o", "d", "s">>, bucket |-> "Methods"],
      [word |-> <<"d", "i", "s", "c", "u", "s", "s", "i", "o", "n">>,
       bucket |-> "Discussion"],
      [word |-> <<"c", "o", "n", "c", "l", "u", "s", "i", "o", "n">>,
       bucket |-> "Conclusion"],
      [word |-> <<"l", "i", "m", "i", "t", "a", "t", "i", "o", "n", "s">>,
       bucket |-> "Limitations"]>>

SecTypes ==
    {<<>>, <<"r", "e", "s", "u", "l", "t", "s">>,
     <<" ", "M", "e", "t", "h", "o", "d", "s", " ">>,
     <<"i", "n", "t", "r", "o">>}

SecTitles ==
    {<<>>, <<<<"M", "e", "t", "h", "o", "d", "s">>>>,
     <<<<"R", "e", "s", "u", "l", "t", "s">>>>,
     <<<<"I", "n", "t", "r", "o">>>>,
     <<<<"M", "e", "t", "h", "o", "d", "s">>, <<"r", "e", "s", "u", "l", "t", "s", " ">>>>}

SecParas == UNION {[1..n -> {<<" ">>, <<"p">>}] : n \in 0..MaxParas}

Sections == [sec_type : SecTypes, titles : SecTitles, paras : SecParas]

\* " ".join(parts)
RECURSIVE JoinSpaces(_)
JoinSpaces(parts) ==
    IF parts = <<>> THEN <<>>
    ELSE IF Len(parts) = 1 THEN parts[1]
    ELSE parts[1] \o <<" ">> \o JoinSpaces(Tail(parts))

\* (sec.get("sec-type") or "").strip().lower()
sec_type_of(sec) == LowerAll(Strip(sec.sec_type))

\* " ".join(t.strip() for t in titles if t and t.strip()).lower()
title_txt(sec) == LowerAll(JoinSpaces(StrippedTexts(sec.titles)))

\* " ".join(t.strip() for t in paragraph texts if t and t.strip()).strip()
para_text(sec) == Strip(JoinSpaces(StrippedTexts(sec.paras)))

\* the first w of wanted, from position k on, with w in title_txt
RECURSIVE first_in_title(_, _)
first_in_title(txt, k) ==
    IF k > Len(wanted) THEN "none"
    ELSE IF IsSubstring(wanted[k].word, txt) THEN wanted[k].bucket
    ELSE first_in_title(txt, k + 1)

chosen_by_title(sec) == first_in_title(title_txt(sec), 1)

\* chosen.capitalize(), or "none" for chosen = None
chosen(sec) ==
    IF \E k \in DOMAIN wanted : wanted[k].word = sec_type_of(sec)
    THEN wanted[CHOOSE k \in DOMAIN wanted : wanted[k].word = sec_type_of(sec)].bucket
    ELSE first_in_title(title_txt(sec), 1)

\* buckets after the loop over the sections
RECURSIVE fill_buckets(_)
fill_buckets(secs) ==
    IF secs = <<>> THEN [k \in {wanted[i].bucket : i \in DOMAIN wanted} |-> <<>>]
    ELSE LET buckets == fill_buckets(SubSeq(secs, 1, Len(secs) - 1))
             sec == secs[Len(secs)]
         IN IF para_text(sec) = <<>> \/ chosen(sec) = "none" THEN buckets
            ELSE [buckets EXCEPT ![chosen(sec)] = Append(@, para_text(sec))]

\* realized = {k: "\n".join(v).strip() for k, v in buckets.items() if v}
realized(secs) ==
    LET buckets == fill_buckets(secs)
    IN [k \in {b \in DOMAIN buckets : buckets[b] # <<>>} |->
           Strip(JoinLines(buckets[k]))]

ClassifyInit ==
    /\ CacheUnused /\ LockInit /\ FetchIdle /\ inplay = {} /\ AnswerIdle
    /\ udone = FALSE
    /\ uout = NoCallYet
    /\ ufn = "realized"
    /\ uarg \in UNION {[1..n -> Sections] : n \in 0..2}

Classify ==
    /\ ufn = "realized"
    /\ Returns(realized(uarg))

ClassifyNext == Classify

\* the sections of the article have been put in their buckets
Classified == udone /\ ufn = "realized"

\* the claim's rule: the section belongs in the bucket of wanted[k]
BelongsIn(sec, k) ==
    LET ty == LowerAll(Strip(sec.sec_type))
        txt == LowerAll(JoinSpaces(StrippedTexts(sec.titles)))
        typed == \E j \in DOMAIN wanted : wanted[j].word = ty
    IN IF typed THEN wanted[k].word = ty
       ELSE /\ IsSubstring(wanted[k].word, txt)
            /\ \A j \in 1..(k - 1) : ~IsSubstring(wanted[j].word, txt)

HasParagraphText(sec) ==
    \E i \in DOMAIN sec.paras : \E j \in DOMAIN sec.paras[i] : sec.paras[i][j] # " "

A1 == <<"a", ".">>

A2 == <<"a", ".", " ", "b", ".">>

\* records: pmid, abstract, year, and whether the study type is preferred
AlignRecords ==
    [pmid : {P1}, abstract : {<<>>, A1, A2}, year : {NoYear, <<0>>, <<1>>},
     preferred : BOOLEAN]

\* what parse_pmc_sections gave for the linked article: nothing, a wanted
\* section or a section that is not wanted
AlignSections ==
    {<<>>, <<[pmid |-> P1, pmcid |-> C5, section |-> "Results", text |-> A2]>>,
     <<[pmid |-> P1, pmcid |-> C5, section |-> "Intro", text |-> A1]>>}

AlignRequests ==
    [records : UNION {[1..n -> AlignRecords] : n \in 0..2},
     sections : AlignSections, top_k : 1..MaxTopK]

\* tokenize_lower on the characters of the chunk texts: runs of word
\* characters
RECURSIVE Tokens(_, _, _)
Tokens(s, done, cur) ==
    IF s = <<>> THEN (IF cur = <<>> THEN done ELSE Append(done, cur))
    ELSE IF Head(s) \in {"a", "b"}
         THEN Tokens(Tail(s), done, cur \o <<Head(s)>>)
         ELSE Tokens(Tail(s), IF cur = <<>> THEN done ELSE Append(done, cur), <<>>)

\* a one-letter word is its letter
tokenize_lower(s) ==
    LET ws == Tokens(s, <<>>, <<>>) IN [i \in DOMAIN ws |-> ws[i][1]]

\* the parts of a text: chunk_by_chars with chunk_chars 4 and no overlap
PartsOf(text) ==
    LET parts == chunk_by_chars(text, 4, 0)
    IN [i \in DOMAIN parts |-> parts[i].text]

\* the sources of chunks in the order of the two loops, abstracts first
RECURSIVE AbstractSources(_)
AbstractSources(records) ==
    IF records = <<>> THEN <<>>
    ELSE LET r == Head(records)
         IN (IF r.abstract = <<>> THEN <<>>
             ELSE <<[source |-> "pubmed", pmid |-> r.pmid, pmcid |-> NoId,
                     section |-> "Abstract", year |-> r.year,
                     preferred |-> r.preferred, text |-> r.abstract]>>)
            \o AbstractSources(Tail(records))

SectionSources(records, sections) ==
    IF sections = <<>> \/ sections[1].section \notin wanted_secs THEN <<>>
    ELSE LET sec == sections[1]
             known == \E i \in DOMAIN records : records[i].pmid = sec.pmid
             rmeta == records[CHOOSE i \in DOMAIN records :
                                 records[i].pmid = sec.pmid
                                 /\ \A j \in 1..(i - 1) : records[j].pmid # sec.pmid]
         IN <<[source |-> "pmc", pmid |-> sec.pmid, pmcid |-> sec.pmcid,
               section |-> sec.section,
               year |-> IF known THEN rmeta.year ELSE NoYear,
               preferred |-> IF known THEN rmeta.preferred ELSE FALSE,
               text |-> sec.text]>>

NoScores == [num |-> <<>>, den |-> 1]

AlignStart(r) ==
    [sources |-> AbstractSources(r.records) \o SectionSources(r.records, r.sections),
     parts |-> <<>>, corpus |-> <<>>, chunk_meta |-> <<>>, have |-> {},
     hybrid |-> NoScores, fresh |-> NoScores, blended |-> NoScores,
     boosted |-> NoScores, top_idxs |-> <<>>, top_chunks |-> <<>>]

AlignInit ==
    /\ CacheUnused /\ LockInit /\ FetchIdle /\ inplay = {} /\ AnswerIdle
    /\ udone = FALSE
    /\ ufn = "assemble"
    /\ uarg \in AlignRequests
    /\ uout = AlignStart(uarg)

AlignStep(at, locals) ==
    /\ ufn' = at
    /\ uout' = locals
    /\ udone' = (at = "returned")
    /\ UNCHANGED uarg
    /\ UNCHANGED <<cvars, lvars, fvars, avars>>

\* parts = chunk_by_chars(...) for the next record or section
NextSource ==
    /\ ufn = "assemble" /\ uout.parts = <<>> /\ uout.sources # <<>>
    /\ AlignStep("assemble",
                 [uout EXCEPT !.parts = LET src == Head(uout.sources)
                                            ps == PartsOf(src.text)
                                        IN [i \in DOMAIN ps |->
                                               [src EXCEPT !.text = ps[i]]],
                              !.sources = Tail(@)])

\* corpus.append(p["text"]); chunk_meta.append({...})
AppendPart ==
    /\ ufn = "assemble" /\ uout.parts # <<>>
    /\ AlignStep("assemble",
                 [uout EXCEPT !.corpus = Append(@, Head(uout.parts).text),
                              !.chunk_meta = Append(@, Head(uout.parts)),
                              !.parts = Tail(@)])

\* "if not corpus: return ..."
AlignCorpusCheck ==
    /\ ufn = "assemble" /\ uout.parts = <<>> /\ uout.sources = <<>>
    /\ AlignStep(IF no_corpus(uout.corpus) THEN "returned" ELSE "hybrid", uout)

doc_rows_short(embs) == SubSeq(embs, 3, Len(embs))

\* embs[1:]
doc_rows(embs) == SubSeq(embs, 2, Len(embs))

\* alpha * cs + (1 - alpha) * bs for cs, bs in zip(cos_n, bm_n), alpha 0.5
hybrid_with_cos(bm, cos_scores) ==
    LET b == minmax(bm)
        c == minmax(cos_scores)
        n == IF Len(c.num) < Len(b.num) THEN Len(c.num) ELSE Len(b.num)
    IN [num |-> [i \in 1..n |-> c.num[i] * b.den + b.num[i] * c.den],
        den |-> 2 * c.den * b.den]

\* bm25_scores(req.term, corpus) for the term "a", in units of 1/10000
LexicalScores(docs) ==
    LET bm == bm25_scores(<<"a">>, [i \in DOMAIN docs |-> tokenize_lower(docs[i])])
    IN Ints([i \in DOMAIN bm |-> bm[i].lo])

\* scores = hybrid_scores(...): embed_texts gives None or one row for the
\* term and one for each chunk; a row is kept as its cosine with the term
Hybrid ==
    /\ ufn = "hybrid"
    /\ \E embs \in {<<>>, [i \in 1..(Len(uout.corpus) + 1) |-> 0],
                    [i \in 1..(Len(uout.corpus) + 1) |-> i % 2]} :
          AlignStep("fresh",
                    [uout EXCEPT !.hybrid =
                                     IF embs = <<>>
                                     THEN hybrid_scores(LexicalScores(uout.corpus))
                                     ELSE hybrid_with_cos(LexicalScores(uout.corpus),
                                                          Ints(doc_rows(embs))),
                                 !.have = @ \cup {"hybrid"}])

\* 2.0 ** e for the exponents 0 and -1 of this model, in halves
InHalves(e) == IF e.num = 0 THEN 2 ELSE 1

\* fresh = [freshness_score(meta_i.get("year"), now_year, half_life) ...] with
\* now_year 1 and a half-life of one year
Fresh ==
    /\ ufn = "fresh"
    /\ AlignStep("blend",
                 [uout EXCEPT !.fresh =
                                  [num |-> [i \in DOMAIN uout.chunk_meta |->
                                               InHalves(freshness_score(
                                                   uout.chunk_meta[i].year, 1, 10))],
                                   den |-> 2],
                              !.have = @ \cup {"fresh"}])

\* scores = blend_with_freshness(scores, fresh, req.freshness_weight)
Blend ==
    /\ ufn = "blend"
    /\ AlignStep("boost",
                 [uout EXCEPT !.blended = blend_with_freshness(uout.hybrid, uout.fresh, 3),
                              !.have = @ \cup {"blended"}])

\* scores = [sc * preference_boost(...) * section_boost(...) ...]
Boost ==
    /\ ufn = "boost"
    /\ AlignStep("select",
                 [uout EXCEPT !.boosted = Boosted(uout.blended, uout.chunk_meta),
                              !.have = @ \cup {"boosted"}])

\* order, top_idxs and top_chunks: meta_i = dict(chunk_meta[i]);
\* meta_i["text"] = corpus[i]
SelectTop ==
    /\ ufn = "select"
    /\ LET idxs == SubSeq(sorted_desc([i \in DOMAIN uout.corpus |-> uout.boosted.num[i]]),
                          1, TopCount(uarg.top_k, Len(uout.corpus)))
       IN AlignStep("returned",
                    [uout EXCEPT !.top_idxs = idxs,
                                 !.top_chunks =
                                     [k \in DOMAIN idxs |->
                                         [uout.chunk_meta[idxs[k]] EXCEPT
                                             !.text = uout.corpus[idxs[k]]]]])

AlignNext ==
    \/ NextSource \/ AppendPart \/ AlignCorpusCheck
    \/ Hybrid \/ Fresh \/ Blend \/ Boost \/ SelectTop

\* the handler is between receiving the records and returning
Aligning ==
    ufn \in {"assemble", "hybrid", "fresh", "blend", "boost", "select", "returned"}

ScoreList(name) ==
    CASE name = "hybrid" -> uout.hybrid
      [] name = "fresh" -> uout.fresh
      [] name = "blended" -> uout.blended
      [] name = "boosted" -> uout.boosted

(***************************************************************************)
(* C26: at every step of corpus assembly and ranking, corpus and           *)
(* chunk_meta have the same length and entry i of both is the same chunk;  *)
(* every score list computed so far has that length, the freshness score   *)
(* at i being that of the year of chunk_meta[i] and the boosted score the  *)
(* blended score times the multipliers of chunk_meta[i]; and every         *)
(* selected chunk is chunk_meta[i] with the text corpus[i] for its index   *)
(* i.                                                                      *)
(***************************************************************************)
C26_IndexAlignment ==
    Aligning =>
        /\ Len(uout.corpus) = Len(uout.chunk_meta)
        /\ \A i \in DOMAIN uout.corpus : uout.chunk_meta[i].text = uout.corpus[i]
        /\ \A name \in uout.have : Len(ScoreList(name).num) = Len(uout.corpus)
        /\ "fresh" \in uout.have =>
              \A i \in DOMAIN uout.chunk_meta :
                  (uout.fresh.num[i] = 2) <=> (uout.chunk_meta[i].year = <<1>>)
        /\ "boosted" \in uout.have =>
              \A i \in DOMAIN uout.chunk_meta :
                  uout.boosted.num[i] =
                      uout.blended.num[i] * Multiplier(uout.chunk_meta[i])
        /\ Len(uout.top_chunks) = Len(uout.top_idxs)
        /\ \A k \in DOMAIN uout.top_chunks :
              /\ uout.top_idxs[k] \in DOMAIN uout.corpus
              /\ uout.top_chunks[k].text = uout.corpus[uout.top_idxs[k]]
              /\ uout.top_chunks[k] = uout.chunk_meta[uout.top_idxs[k]]

\* a request that returned chunks of an abstract and of a full-text section,
\* ranked with embeddings, the first selected chunk not the first of the
\* corpus
C26_Witness ==
    /\ ufn = "returned" /\ udone
    /\ Len(uout.corpus) >= 3
    /\ \E i, j \in DOMAIN uout.chunk_meta :
          uout.chunk_meta[i].source = "pubmed" /\ uout.chunk_meta[j].source = "pmc"
    /\ uout.hybrid.den > 1
    /\ uout.top_idxs # <<>> /\ uout.top_idxs[1] # 1

(***************************************************************************)
(* Concurrent invocations of the client.  Every await of an operation is   *)
(* a point where the other invocation can run: the cache lookup, each      *)
(* attempt of the outbound call, the cache set.  The runs use one          *)
(* operation, so the invocations meet on one cache key.                    *)
(***************************************************************************)
Flights == {{"esearch"}, {"elink.pmc"}}

FlightInit ==
    CacheUnused /\ LockInit /\ FetchIdle /\ inplay \in Flights /\ AnswerIdle /\ HarnessIdle

FlightNext ==
    \/ FTick
    \/ \E i \in FAll, kind \in Kinds, arg \in Args : Begin(i, kind, arg)
    \/ \E i \in FAll : Lookup(i)
    \/ \E i \in FAll : AttemptOk(i)
    \/ \E i \in FAll : AttemptFail(i)
    \/ \E i \in FAll : Store(i)

\* invocation j has missed the cache and has not stored yet
InFlight(j) == fpc[j] \in {"attempt", "set"}

\* two invocations of the same operation with equal cache keys
SameCall(i, j) == i # j /\ fcall[i] = fcall[j]

\* the entries the tier of invocation i holds for its key after a step
EntriesFor(i) ==
    LET c == tiers'[TierOf(i)]
    IN [stored |-> {k \in DOMAIN c.store : k = KeyOf(i)},
        touched |-> {n \in DOMAIN c.touch : c.touch[n].k = KeyOf(i)}]

\* C27: the client has no single-flight.  An invocation that reads the cache
\* while its key is absent goes on to its own outbound call even when another
\* invocation of the same operation with the same key is already in flight;
\* it leaves its outbound call only with a body of its own or with its own
\* error; and when it sets, the tier holds one entry for the key, whose value
\* is the result this invocation returns, whatever the other one had written.
C27_NoSingleFlight ==
    [][\A i \in FAll :
          /\ \A j \in FAll :
                SameCall(i, j) /\ InFlight(j) =>
                   /\ (LookupStep(i) /\ ~Usable(tiers[TierOf(i)], KeyOf(i), now))
                         => fpc'[i] = "attempt"
                   /\ (fpc[i] = "attempt" /\ fpc'[i] # "attempt")
                         => \/ fpc'[i] = "set" /\ fdata'[i] \in BodiesOf(fcall[i].kind)
                            \/ fpc'[i] = "done" /\ fres'[i].out = "raised"
          /\ StoreStep(i) =>
                /\ fres'[i].via = "fetch"
                /\ Cardinality(EntriesFor(i).stored) = 1
                /\ Cardinality(EntriesFor(i).touched) = 1
                /\ tiers'[TierOf(i)].store[KeyOf(i)].val = fres'[i].val
      ]_vars

\* both invocations missed the one key at clock 0 (an entry set at clock 0 is
\* still usable at clock 0, so neither lookup came after the other's set), both
\* fetched, the results differ, and the tier holds one of them
C27_Witness ==
    /\ now = 0
    /\ SameCall("i1", "i2")
    /\ \A i \in FAll : fpc[i] = "done" /\ fres[i].out = "returned" /\ fres[i].via = "fetch"
    /\ fres["i1"].val # fres["i2"].val
    /\ KeyOf("i1") \in DOMAIN tiers[TierOf("i1")].store
    /\ tiers[TierOf("i1")].store[KeyOf("i1")].val = fres["i1"].val

Init == CacheInit /\ LockInit /\ FetchIdle /\ inplay = {} /\ AnswerIdle /\ HarnessIdle

Next == CacheNext

Spec == Init /\ [][Next]_vars

LockSpec == Init /\ [][LockNext]_vars

FetchSpecInit == CacheUnused /\ LockInit /\ FetchInit /\ AnswerIdle /\ HarnessIdle

FetchSpec == FetchSpecInit /\ [][FetchNext]_vars

AnswerSpecInit == CacheUnused /\ LockInit /\ FetchIdle /\ inplay = {} /\ AnswerIdle /\ HarnessIdle

AnswerSpec == AnswerSpecInit /\ [][AnswerNext]_vars

ParseSpec == ParseInit /\ [][ParseNext]_vars

ChunkSpec == ChunkInit /\ [][ChunkNext]_vars

RankSpec == RankInit /\ [][RankNext]_vars

Bm25Spec == Bm25Init /\ [][Bm25Next]_vars

FreshSpec == FreshInit /\ [][FreshNext]_vars

BoostSpec == BoostInit /\ [][BoostNext]_vars

RefSpec == RefInit /\ [][RefNext]_vars

ArticlesSpec == ArticlesInit /\ [][ArticlesNext]_vars

ResolveSpec == ResolveInit /\ [][ResolveNext]_vars

ClassifySpec == ClassifyInit /\ [][ClassifyNext]_vars

AlignSpec == AlignInit /\ [][AlignNext]_vars

FlightSpec == FlightInit /\ [][FlightNext]_vars

====
